---- MODULE Spec2Model ----
(***************************************************************************)
(* RadikoClient (raycast-radiko): the program-guide disk cache of          *)
(* getPrograms / fetchProgramsXml, the recording pipeline of               *)
(* recordProgram / executeRecording / addMetadata and the handshake of     *)
(* authenticate, as state machines whose steps are the stretches of code   *)
(* between two awaits.                                                     *)
(***************************************************************************)
EXTENDS Integers, Sequences, FiniteSets, TLC

(***************************************************************************)
(* Bounds of the model.                                                    *)
(***************************************************************************)
\* how often the wall clock advances in one behaviour
MaxTicks == 3
\* how many getPrograms calls are made in one behaviour
MaxCalls == 3
\* the longest program title a file name is built from
MaxTitleLen == 3
\* the most station nodes a station-list document has
MaxStations == 3
\* the diagnostic-output events of one tool invocation
MaxStderr == 2

(***************************************************************************)
(* Values.                                                                 *)
(***************************************************************************)
\* no document
NoBody == [none |-> TRUE]
\* a path at which no file exists
NoFile == [exists |-> FALSE]
NoKey == "NoKey"
\* no time recorded
NoTime == 0 - 1
Undefined == "undefined"

\* fetchProgramsXml: const cacheExpiry = 60 * 60 * 1000 (milliseconds)
cacheExpiry == 60 * 60 * 1000

\* the amounts (ms) by which the clock advances: one millisecond, and one
\* millisecond less than the freshness window (two steps reach the window
\* exactly)
Deltas == {1, cacheExpiry - 1}

Callers == {"c1", "c2"}
StationIds == {"TBS", "QRR"}
Dates == {"20230101"}
\* the (stationId, date) pairs of getPrograms; one cache file per pair
Keys == StationIds \X Dates

(***************************************************************************)
(* Program-guide documents.  A document is the XML text the server sends   *)
(* or the cache holds; only its tree matters: the station node's id        *)
(* attribute and name, and the prog nodes under progs, in document order.  *)
(***************************************************************************)
ProgA == [id |-> "p1", title |-> <<"N", "/", "A">>, ft |-> "20230101050000", to |-> "20230101060000", img |-> "http://x/a.jpg", pfm |-> "Ann"]
ProgB == [id |-> "p2", title |-> <<"T", "k">>, ft |-> "20230101060000", to |-> "20230101070000", img |-> "", pfm |-> "Bob"]

Doc0 == [sid |-> "TBS", sname |-> "TBS Radio", progs |-> << >>]
Doc1 == [sid |-> "TBS", sname |-> "TBS Radio", progs |-> <<ProgA>>]
Doc2 == [sid |-> "TBS", sname |-> "TBS Radio (New)", progs |-> <<ProgA, ProgB>>]
DocX == [sid |-> Undefined, sname |-> Undefined, progs |-> <<ProgB>>]

\* the bodies the program-guide endpoint answers with
Bodies == {Doc1, Doc2}

\* fast-xml-parser: repeated child elements become an array, a single child
\* element becomes the object itself, no child leaves the property undefined
XmlChildren(nodes) ==
    IF Len(nodes) = 0 THEN [kind |-> "undefined"]
    ELSE IF Len(nodes) = 1 THEN [kind |-> "object", node |-> nodes[1]]
    ELSE [kind |-> "array", items |-> nodes]

\* the value taken as it is, without the fallback
OrElse_NoFallback(x, fallback) ==
    x

\* x || fallback of JavaScript, for the values a document attribute can take
OrElse(x, fallback) ==
    IF x = Undefined \/ x = "" THEN fallback ELSE x

\* programs.map((p) => ({...})) of parseRadikoProgramXml
ToProgram(p, stationId, stationName) ==
    [id |-> p.id, title |-> p.title, ft |-> p.ft, to |-> p.to, img |-> p.img,
     pfm |-> p.pfm, stationId |-> stationId, stationName |-> stationName]

\* the parser without the early return on a missing prog node
parseRadikoProgramXml_NoEarlyReturn(xmlData) ==
    LET stationId == OrElse(xmlData.sid, "unknown station id")
        stationName == OrElse(xmlData.sname, "unknown station")
        programNodes == XmlChildren(xmlData.progs)
        programs == IF programNodes.kind = "array" THEN programNodes.items
                    ELSE IF programNodes.kind = "object" THEN <<programNodes.node>>
                    ELSE <<[id |-> Undefined, title |-> Undefined, ft |-> Undefined,
                            to |-> Undefined, img |-> Undefined, pfm |-> Undefined]>>
    IN  [i \in 1..Len(programs) |-> ToProgram(programs[i], stationId, stationName)]

\* RadikoClient.parseRadikoProgramXml
parseRadikoProgramXml(xmlData) ==
    LET stationId == OrElse(xmlData.sid, "unknown station id")
        stationName == OrElse(xmlData.sname, "unknown station")
        programNodes == XmlChildren(xmlData.progs)
        programs == IF programNodes.kind = "array" THEN programNodes.items
                    ELSE <<programNodes.node>>
    IN  IF programNodes.kind = "undefined" THEN << >>
        ELSE [i \in 1..Len(programs) |-> ToProgram(programs[i], stationId, stationName)]

(***************************************************************************)
(* Results of a call.                                                      *)
(***************************************************************************)
Ok(v) == [ok |-> TRUE, value |-> v]
Err(kind) == [ok |-> FALSE, error |-> kind]
Pending == [ok |-> FALSE, error |-> "pending"]

VARIABLES
    now,        \* the wall clock, milliseconds (new Date().getTime(), Date.now())
    ticks,      \* how often the clock has advanced
    dirReady,   \* the cache directory exists (the constructor's mkdir has completed)
    cache,      \* the cache files: Keys -> NoFile or [body, mtime]
    scope,      \* the callers, stations and jobs that take part in this behaviour
    gp,         \* per caller: the getPrograms call in progress
    ncalls,     \* how many getPrograms calls have been started
    last,       \* per key: the getPrograms call that returned last (IdleCall: none yet)
    authToken,  \* this.authToken: Null, or the token of the last successful authenticate()
    fs,         \* the files of the temporary and the save directory: path -> content
    job,        \* per job: the recordProgram or addMetadata call in progress
    areaCode,   \* this.areaCode: Null, or the area code of the last successful authenticate()
    auth,       \* per session: the authenticate call in progress
    sl,         \* per caller: the getStationList call in progress
    panel,      \* the all-programs view: the state of its fetchAllPrograms run
    lib         \* a call of a function without state: its arguments and what it returned

vars == <<now, ticks, dirReady, cache, scope, gp, ncalls, last, authToken, fs, job, areaCode, auth, sl, panel, lib>>
\* the variables of the recording pipeline
recVars == <<authToken, fs, job>>
\* the variables of the program-guide cache
guideVars == <<dirReady, cache, gp, ncalls, last>>
\* the variables only authenticate() writes or reads
authVars == <<areaCode, auth>>
\* the variables of getStationList, of the all-programs view and of the
\* functions without state
otherVars == <<sl, panel, lib>>

\* a caller with no call in progress
IdleCall ==
    [pc |-> "idle", key |-> NoKey,
     statAt |-> NoTime, statRes |-> "none", statMt |-> NoTime,
     readRes |-> "none", readBody |-> NoBody,
     net |-> 0, fetchRes |-> "none", fetched |-> NoBody,
     writeRes |-> "none", writeAt |-> NoTime,
     result |-> Pending]

(***************************************************************************)
(* fetchProgramsXml, piece by piece.                                       *)
(***************************************************************************)
\* the freshness test with the strict comparison replaced by <=
IsFresh_Lte(t, mtime) ==
    t - mtime <= cacheExpiry

\* the freshness test with a window of half the length
IsFresh_Half(t, mtime) ==
    2 * (t - mtime) < cacheExpiry

\* new Date().getTime() - stats.mtime.getTime() < cacheExpiry
IsFresh(t, mtime) ==
    t - mtime < cacheExpiry

\* console.log(...); const response = await fetch(url): the request is sent
IssueFetch(call) ==
    [call EXCEPT !.pc = "fetch", !.net = call.net + 1]

\* return RadikoClient.parseRadikoProgramXml(xmlData) of getPrograms
ReturnPrograms(call, xmlData) ==
    [call EXCEPT !.pc = "done", !.result = Ok(parseRadikoProgramXml(xmlData))]

\* an exception leaves fetchProgramsXml and getPrograms
Throw(call, kind) ==
    [call EXCEPT !.pc = "done", !.result = Err(kind)]

\* a failed response falls back to whatever the cache file holds
AfterFetchNotOk_Fallback(call, entry) ==
    IF entry = NoFile THEN Throw(call, "network")
    ELSE ReturnPrograms(call, entry.body)

\* if (!response.ok) throw new Error(...)
AfterFetchNotOk(call, entry) ==
    Throw(call, "network")

\* the write leaves the file as it was
WrittenEntry_Kept(entry, xmlData, t) ==
    entry

\* the file after a successful writeFile(cachePath, xmlData, "utf-8") at time t
WrittenEntry(entry, xmlData, t) ==
    [exists |-> TRUE, body |-> xmlData, mtime |-> t]

\* getPrograms(stationId, date): fetchProgramsXml computes cachePath and
\* awaits stat(cachePath)
GetPrograms(c, k) ==
    /\ c \in scope.callers
    /\ k[1] \in scope.stations
    /\ gp[c].pc = "idle"
    /\ ncalls < MaxCalls
    /\ ncalls' = ncalls + 1
    /\ gp' = [gp EXCEPT ![c] = [IdleCall EXCEPT !.pc = "stat", !.key = k]]
    /\ UNCHANGED <<now, ticks, dirReady, cache, scope, last>>
    /\ UNCHANGED recVars
    /\ UNCHANGED otherVars
    /\ UNCHANGED authVars

\* stat(cachePath) settles.  A missing file and an I/O error both reject and
\* are caught; a stale entry falls through; all three send the request.
StatDone(c) ==
    /\ gp[c].pc = "stat"
    /\ LET call == [gp[c] EXCEPT !.statAt = now]
           entry == cache[call.key]
       IN  \/ /\ entry = NoFile
              /\ gp' = [gp EXCEPT ![c] = IssueFetch([call EXCEPT !.statRes = "enoent"])]
           \/ /\ entry # NoFile
              /\ gp' = [gp EXCEPT ![c] = IssueFetch([call EXCEPT !.statRes = "err"])]
           \/ /\ entry # NoFile
              /\ LET seen == [call EXCEPT !.statRes = "ok", !.statMt = entry.mtime]
                 IN  gp' = [gp EXCEPT ![c] =
                               IF IsFresh(now, entry.mtime)
                               THEN [seen EXCEPT !.pc = "read"]
                               ELSE IssueFetch(seen)]
    /\ UNCHANGED <<now, ticks, dirReady, cache, scope, ncalls, last>>
    /\ UNCHANGED recVars
    /\ UNCHANGED otherVars
    /\ UNCHANGED authVars

\* a read that refreshes the modification time of the file it has read
ReadDone_Touches(c) ==
    /\ gp[c].pc = "read"
    /\ LET call == gp[c]
           entry == cache[call.key]
       IN  \/ /\ entry # NoFile
              /\ gp' = [gp EXCEPT ![c] =
                           ReturnPrograms([call EXCEPT !.readRes = "ok", !.readBody = entry.body],
                                          entry.body)]
              /\ cache' = [cache EXCEPT ![call.key] = [entry EXCEPT !.mtime = now]]
           \/ /\ gp' = [gp EXCEPT ![c] = IssueFetch([call EXCEPT !.readRes = "err"])]
              /\ cache' = cache
    /\ UNCHANGED <<now, ticks, dirReady, scope, ncalls, last>>
    /\ UNCHANGED recVars
    /\ UNCHANGED otherVars
    /\ UNCHANGED authVars

\* readFile(cachePath, "utf-8") settles: the body is returned, or the error is
\* caught and the request is sent
ReadDone(c) ==
    /\ gp[c].pc = "read"
    /\ LET call == gp[c]
           entry == cache[call.key]
       IN  \/ /\ entry # NoFile
              /\ gp' = [gp EXCEPT ![c] =
                           ReturnPrograms([call EXCEPT !.readRes = "ok", !.readBody = entry.body],
                                          entry.body)]
           \/ gp' = [gp EXCEPT ![c] = IssueFetch([call EXCEPT !.readRes = "err"])]
    /\ UNCHANGED <<now, ticks, dirReady, cache, scope, ncalls, last>>
    /\ UNCHANGED recVars
    /\ UNCHANGED otherVars
    /\ UNCHANGED authVars

\* fetch(url) settles with a success status: response.text() gives the body and
\* writeFile(cachePath, xmlData) is awaited
FetchOk(c, xmlData) ==
    /\ gp[c].pc = "fetch"
    /\ gp' = [gp EXCEPT ![c] = [gp[c] EXCEPT !.pc = "write", !.fetchRes = "ok", !.fetched = xmlData]]
    /\ UNCHANGED <<now, ticks, dirReady, cache, scope, ncalls, last>>
    /\ UNCHANGED recVars
    /\ UNCHANGED otherVars
    /\ UNCHANGED authVars

\* fetch(url) settles with a non-success status
FetchNotOk(c) ==
    /\ gp[c].pc = "fetch"
    /\ gp' = [gp EXCEPT ![c] = AfterFetchNotOk([gp[c] EXCEPT !.fetchRes = "notok"], cache[gp[c].key])]
    /\ UNCHANGED <<now, ticks, dirReady, cache, scope, ncalls, last>>
    /\ UNCHANGED recVars
    /\ UNCHANGED otherVars
    /\ UNCHANGED authVars

\* fetch(url) rejects (no connection): the rejection leaves the call
FetchReject(c) ==
    /\ gp[c].pc = "fetch"
    /\ gp' = [gp EXCEPT ![c] = Throw([gp[c] EXCEPT !.fetchRes = "reject"], "fetch")]
    /\ UNCHANGED <<now, ticks, dirReady, cache, scope, ncalls, last>>
    /\ UNCHANGED recVars
    /\ UNCHANGED otherVars
    /\ UNCHANGED authVars

\* writeFile(cachePath, xmlData, "utf-8") resolves: return xmlData, parsed by
\* getPrograms.  The open and the write in one step, as they are when no
\* other call works on the same file
WriteOk(c) ==
    /\ gp[c].pc = "write"
    /\ dirReady
    /\ LET call == gp[c]
       IN  /\ cache' = [cache EXCEPT ![call.key] = WrittenEntry(cache[call.key], call.fetched, now)]
           /\ gp' = [gp EXCEPT ![c] =
                        ReturnPrograms([call EXCEPT !.writeRes = "ok", !.writeAt = now], call.fetched)]
    /\ UNCHANGED <<now, ticks, dirReady, scope, ncalls, last>>
    /\ UNCHANGED recVars
    /\ UNCHANGED otherVars
    /\ UNCHANGED authVars

\* writeFile rejects (the directory is not there yet, the disk is full, ...):
\* the await is not guarded, the rejection leaves the call
WriteFail(c) ==
    /\ gp[c].pc = "write"
    /\ gp' = [gp EXCEPT ![c] = Throw([gp[c] EXCEPT !.writeRes = "err", !.writeAt = now], "write")]
    /\ UNCHANGED <<now, ticks, dirReady, cache, scope, ncalls, last>>
    /\ UNCHANGED recVars
    /\ UNCHANGED otherVars
    /\ UNCHANGED authVars

\* the text of a file that has been created or truncated and not written
EmptyText == [sid |-> Undefined, sname |-> Undefined, progs |-> << >>]

\* the length of a document's text: no text, or more the more prog nodes
TextLength(xmlData) ==
    IF xmlData = EmptyText THEN 0 ELSE 1 + Len(xmlData.progs)

\* a write of data at offset 0 into a file that holds content: the bytes
\* beyond the end of data stay (the text of data followed by the tail of
\* content)
Overwrite(content, data) ==
    IF TextLength(content) <= TextLength(data) THEN data
    ELSE [sid |-> data.sid, sname |-> data.sname, progs |-> data.progs, tail |-> content]

\* writeFile(cachePath, xmlData, "utf-8"), first half: the file is opened
\* with flag "w", which creates or truncates it.  writeFile is not atomic:
\* steps of other calls come between the open and the write
WriteOpen(c) ==
    /\ gp[c].pc = "write"
    /\ dirReady
    /\ cache' = [cache EXCEPT ![gp[c].key] = WrittenEntry(cache[gp[c].key], EmptyText, now)]
    /\ gp' = [gp EXCEPT ![c] = [gp[c] EXCEPT !.pc = "writeData"]]
    /\ UNCHANGED <<now, ticks, dirReady, scope, ncalls, last>>
    /\ UNCHANGED recVars
    /\ UNCHANGED otherVars
    /\ UNCHANGED authVars

\* writeFile, second half: the text is written from the start of the file,
\* the file is closed and the promise resolves: return xmlData, parsed by
\* getPrograms
WriteData(c) ==
    /\ gp[c].pc = "writeData"
    /\ LET call == gp[c]
           entry == cache[call.key]
       IN  /\ cache' = [cache EXCEPT ![call.key] =
                           WrittenEntry(entry, Overwrite(entry.body, call.fetched), now)]
           /\ gp' = [gp EXCEPT ![c] =
                        ReturnPrograms([call EXCEPT !.writeRes = "ok", !.writeAt = now], call.fetched)]
    /\ UNCHANGED <<now, ticks, dirReady, scope, ncalls, last>>
    /\ UNCHANGED recVars
    /\ UNCHANGED otherVars
    /\ UNCHANGED authVars

\* the write into the opened file rejects (the disk is full): the file stays
\* as it is, the rejection leaves the call
WriteDataFail(c) ==
    /\ gp[c].pc = "writeData"
    /\ gp' = [gp EXCEPT ![c] = Throw([gp[c] EXCEPT !.writeRes = "err", !.writeAt = now], "write")]
    /\ UNCHANGED <<now, ticks, dirReady, cache, scope, ncalls, last>>
    /\ UNCHANGED recVars
    /\ UNCHANGED otherVars
    /\ UNCHANGED authVars

\* the caller receives the settled promise
GetProgramsReturn(c) ==
    /\ gp[c].pc = "done"
    /\ last' = [last EXCEPT ![gp[c].key] = gp[c]]
    /\ gp' = [gp EXCEPT ![c] = IdleCall]
    /\ UNCHANGED <<now, ticks, dirReady, cache, scope, ncalls>>
    /\ UNCHANGED recVars
    /\ UNCHANGED otherVars
    /\ UNCHANGED authVars

\* constructor: mkdir(this.cacheDir, { recursive: true }) is not awaited; it
\* completes at some later time
MkdirDone ==
    /\ ~dirReady
    /\ dirReady' = TRUE
    /\ UNCHANGED <<now, ticks, cache, scope, gp, ncalls, last>>
    /\ UNCHANGED recVars
    /\ UNCHANGED otherVars
    /\ UNCHANGED authVars

\* the wall clock advances
Tick(d) ==
    /\ ticks < MaxTicks
    /\ now' = now + d
    /\ ticks' = ticks + 1
    /\ UNCHANGED <<dirReady, cache, scope, gp, ncalls, last>>
    /\ UNCHANGED recVars
    /\ UNCHANGED otherVars
    /\ UNCHANGED authVars

(***************************************************************************)
(* The recording pipeline: recordProgram, executeRecording, addMetadata.   *)
(***************************************************************************)
\* this.authToken before any successful authenticate()
Null == "null"
\* a token as authenticate() stores it
Tokens == {"token-1"}

Jobs == {"j1", "j2"}
SaveDirs == {"/save"}
\* the exit codes of the external tool
ExitCodes == {0, 1, 255}
\* no exit code seen
NoCode == 0 - 1
\* the programs recordProgram is called with: one with a cover image, one without
Recordable == {ProgA, ProgB}

\* the characters of the class [/:*?"<>|]
IllegalChars == {"/", ":", "*", "?", "\"", "<", ">", "|"}

\* the replacement of the first illegal character only
safeProgramTitle_FirstOnly(programTitle) ==
    [i \in 1..Len(programTitle) |->
        IF programTitle[i] \in IllegalChars /\ \A k \in 1..(i - 1) : programTitle[k] \notin IllegalChars
        THEN "_" ELSE programTitle[i]]

\* programTitle.replace(/[/:*?"<>|]/g, "_")
safeProgramTitle(programTitle) ==
    [i \in 1..Len(programTitle) |->
        IF programTitle[i] \in IllegalChars THEN "_" ELSE programTitle[i]]

NoPath == [kind |-> "none", t |-> NoTime, name |-> << >>]

\* join(saveDirectory, `${stationId}_${safeProgramTitle}_${startTime}.m4a`)
finalOutputPath(saveDirectory, stationId, programTitle, startTime) ==
    [kind |-> "final", t |-> NoTime,
     name |-> <<saveDirectory, stationId, safeProgramTitle(programTitle), startTime>>]

\* join(tmpdir(), `radiko_temp_${Date.now()}.m4a`)
TempAudioPath(t) == [kind |-> "temp", t |-> t, name |-> << >>]

\* join(tmpdir(), `radiko_cover_${Date.now()}.${tempImageExt}`)
TempImagePath(t) == [kind |-> "cover", t |-> t, name |-> << >>]

\* the file system: a function from the paths that exist to their content
Exists(f, path) == path \in DOMAIN f
Put(f, path, content) == [q \in DOMAIN f \cup {path} |-> IF q = path THEN content ELSE f[q]]
Remove(f, path) == [q \in DOMAIN f \ {path} |-> f[q]]
\* rename(from, to): to is replaced, from is gone
Rename(f, from, to) == Remove(Put(f, to, f[from]), from)

\* what a file holds: the complete recording of a job, the output of a tool
\* that has not finished, the tagged recording, the cover image
Raw(j) == [data |-> "raw", of |-> j]
Partial(j) == [data |-> "partial", of |-> j]
Tagged(j) == [data |-> "tagged", of |-> j]
Image(j) == [data |-> "image", of |-> j]

\* an output path of a direct addMetadata call
TaggedPath == [kind |-> "final", t |-> NoTime, name |-> <<"/save", "tagged">>]
\* a path at which no file exists, as input of a direct addMetadata call
MissingPath == [kind |-> "final", t |-> NoTime, name |-> <<"/save", "missing">>]

\* a job with no recordProgram or addMetadata call in progress
IdleJob ==
    [pc |-> "idle", direct |-> FALSE, hasCover |-> FALSE,
     finalPath |-> NoPath, tempAudioPath |-> NoPath, tempImagePath |-> NoPath,
     in |-> NoPath, image |-> NoPath,
     out |-> NoPath, opened |-> FALSE, spawns |-> 0, fetches |-> 0, code |-> NoCode,
     stderr |-> << >>, late |-> {},
     recOut |-> Pending, recCode |-> NoCode, tagOut |-> Pending, tagCode |-> NoCode,
     recRes |-> "none", coverRes |-> "none", tagRes |-> "none",
     renameRes |-> "none", rmAudioRes |-> "none", rmImageRes |-> "none",
     pending |-> Pending, result |-> Pending]

\* an exception leaves recordProgram: the promise rejects
Reject(jr, kind) ==
    [jr EXCEPT !.pc = "done", !.result = Err(kind)]

\* const ffmpeg = spawn(this.ffmpegPath, args), the output path the last argument
Spawn(jr, tool, outputPath) ==
    [jr EXCEPT !.pc = tool, !.out = outputPath, !.opened = FALSE, !.spawns = jr.spawns + 1,
               !.stderr = << >>]

\* the token test that lets every token pass
NoToken_Never(token) ==
    FALSE

\* !this.authToken
NoToken(token) ==
    token = Null \/ token = ""

\* the exit code test that lets every code below 2 pass
ExitedOk_BelowTwo(code) ==
    code < 2

\* code === 0
ExitedOk(code) ==
    code = 0

\* what the promise of a tool invocation settles with: the output path, or the
\* error the close or the error handler rejects with (the close handler's
\* message carries the exit code)
ToolSettles(outcome, code, outputPath) ==
    IF outcome = "ok" THEN Ok(outputPath)
    ELSE IF outcome = "exit" THEN [ok |-> FALSE, error |-> "exit", exitCode |-> code]
    ELSE Err(outcome)

\* the recording started on the final path whatever path it is given
executeRecording_ToFinal(jr, token, outputPath) ==
    IF NoToken(token) THEN Reject(jr, "auth")
    ELSE Spawn(jr, "rec", jr.finalPath)

\* executeRecording up to the spawn
executeRecording(jr, token, outputPath) ==
    IF NoToken(token) THEN Reject(jr, "auth")
    ELSE Spawn(jr, "rec", outputPath)

\* the recording's outcome followed by the cover download with or without a
\* cover image
AfterRecording_AlwaysCover(jr, outcome) ==
    LET seen == [jr EXCEPT !.recRes = outcome, !.recCode = jr.code,
                           !.recOut = ToolSettles(outcome, jr.code, jr.out)]
    IN  IF outcome # "ok" THEN [seen EXCEPT !.pc = "done", !.result = seen.recOut]
        ELSE [seen EXCEPT !.pc = "cover", !.fetches = jr.fetches + 1]

\* a failed recording started once more
AfterRecording_Retry(jr, outcome) ==
    LET seen == [jr EXCEPT !.recRes = outcome, !.recCode = jr.code,
                           !.recOut = ToolSettles(outcome, jr.code, jr.out)]
    IN  IF outcome # "ok" /\ jr.spawns < 2 THEN Spawn(seen, "rec", jr.out)
        ELSE IF outcome # "ok" \/ ~jr.hasCover THEN [seen EXCEPT !.pc = "done", !.result = seen.recOut]
        ELSE [seen EXCEPT !.pc = "cover", !.fetches = jr.fetches + 1]

\* the recording tool's promise settles: without a cover image it is the result
\* of recordProgram; with one, a rejection leaves recordProgram (the await is
\* before the try) and a success sends the cover request
AfterRecording(jr, outcome) ==
    LET seen == [jr EXCEPT !.recRes = outcome, !.recCode = jr.code,
                           !.recOut = ToolSettles(outcome, jr.code, jr.out)]
    IN  IF outcome # "ok" \/ ~jr.hasCover THEN [seen EXCEPT !.pc = "done", !.result = seen.recOut]
        ELSE [seen EXCEPT !.pc = "cover", !.fetches = jr.fetches + 1]

\* catch (error) { console.error(...); await rename(tempAudioPath, finalOutputPath)
Catch(jr) ==
    [jr EXCEPT !.pc = "rename"]

\* the promise of addMetadata settles.  Called by recordProgram: return
\* finalOutputPath and on to the finally block, or into the catch block;
\* called directly: the promise is the result
AfterTagging(jr, outcome) ==
    LET seen == [jr EXCEPT !.tagRes = outcome, !.tagCode = jr.code,
                           !.tagOut = ToolSettles(outcome, jr.code, jr.out)]
    IN  IF jr.direct THEN [seen EXCEPT !.pc = "done", !.result = seen.tagOut]
        ELSE IF outcome = "ok" THEN [seen EXCEPT !.pc = "rmAudio", !.pending = Ok(jr.finalPath)]
        ELSE Catch(seen)

\* addMetadata without the comparison of the two paths
addMetadata_NoPathCheck(jr, audioFilePath, outputFilePath, imageFilePath) ==
    [Spawn(jr, "tag", outputFilePath) EXCEPT !.in = audioFilePath, !.image = imageFilePath]

\* addMetadata up to the spawn: equal paths reject at once
addMetadata(jr, audioFilePath, outputFilePath, imageFilePath) ==
    IF audioFilePath = outputFilePath THEN AfterTagging(jr, "samepath")
    ELSE [Spawn(jr, "tag", outputFilePath) EXCEPT !.in = audioFilePath, !.image = imageFilePath]

\* the finally block has run to its end: the call settles as try/catch left it
Settle(jr) ==
    [jr EXCEPT !.pc = "done", !.result = jr.pending]

\* recordProgram(program, stationId, programTitle, programImage, startTime,
\* endTime, saveDirectory) up to its first await
RecordProgram(j, program, saveDirectory) ==
    /\ j \in scope.jobs
    /\ job[j].pc = "idle"
    /\ LET final == finalOutputPath(saveDirectory, "TBS", program.title, program.ft)
           jr == [job[j] EXCEPT !.finalPath = final, !.hasCover = (program.img # "")]
       IN  job' = [job EXCEPT ![j] =
                      IF NoToken(authToken) THEN Reject(job[j], "auth")
                      ELSE IF ~jr.hasCover THEN executeRecording(jr, authToken, final)
                      ELSE [jr EXCEPT !.pc = "imports"]]
    /\ UNCHANGED <<now, ticks, scope, authToken, fs>>
    /\ UNCHANGED guideVars
    /\ UNCHANGED otherVars
    /\ UNCHANGED authVars

\* addMetadata(audioFilePath, outputFilePath, title, artist, album) called
\* directly, without an image, while no recordProgram call is in progress
AddMetadata(j, audioFilePath, outputFilePath) ==
    /\ j \in scope.taggers
    /\ job[j].pc = "idle"
    /\ \A k \in scope.jobs : job[k].pc \in {"idle", "done"}
    /\ job' = [job EXCEPT ![j] =
                  addMetadata([job[j] EXCEPT !.direct = TRUE, !.in = audioFilePath, !.finalPath = outputFilePath],
                              audioFilePath, outputFilePath, NoPath)]
    /\ UNCHANGED <<now, ticks, scope, authToken, fs>>
    /\ UNCHANGED guideVars
    /\ UNCHANGED otherVars
    /\ UNCHANGED authVars

\* the two dynamic imports have resolved: the temporary audio path is named
\* after the clock and the recording tool is started on it
RecordToTemp(j) ==
    /\ job[j].pc = "imports"
    /\ LET temp == TempAudioPath(now)
       IN  job' = [job EXCEPT ![j] =
                      executeRecording([job[j] EXCEPT !.tempAudioPath = temp], authToken, temp)]
    /\ UNCHANGED <<now, ticks, scope, authToken, fs>>
    /\ UNCHANGED guideVars
    /\ UNCHANGED otherVars
    /\ UNCHANGED authVars

\* the running tool (started with -y) creates or truncates its output file,
\* the tagging tool after it has opened its input
ToolOpensOutput(j) ==
    /\ job[j].pc \in {"rec", "tag"}
    /\ ~job[j].opened
    /\ job[j].pc = "tag" => Exists(fs, job[j].in)
    /\ fs' = Put(fs, job[j].out, Partial(j))
    /\ job' = [job EXCEPT ![j] = [job[j] EXCEPT !.opened = TRUE]]
    /\ UNCHANGED <<now, ticks, scope, authToken>>
    /\ UNCHANGED guideVars
    /\ UNCHANGED otherVars
    /\ UNCHANGED authVars

\* ffmpeg.on("close", (code) => ...) with a code that passes the test (the
\* tool exits with 0 when its output file is complete): the promise resolves
ToolCloseOk(j, code) ==
    /\ job[j].pc \in {"rec", "tag"}
    /\ ExitedOk(code)
    /\ IF job[j].pc = "rec"
       THEN /\ fs' = Put(fs, job[j].out, Raw(j))
            /\ job' = [job EXCEPT ![j] = AfterRecording([job[j] EXCEPT !.code = code], "ok")]
       ELSE /\ Exists(fs, job[j].in)
            /\ job[j].image # NoPath => Exists(fs, job[j].image)
            /\ fs' = Put(fs, job[j].out, Tagged(fs[job[j].in].of))
            /\ job' = [job EXCEPT ![j] = AfterTagging([job[j] EXCEPT !.code = code], "ok")]
    /\ UNCHANGED <<now, ticks, scope, authToken>>
    /\ UNCHANGED guideVars
    /\ UNCHANGED otherVars
    /\ UNCHANGED authVars

\* ffmpeg.on("close", (code) => ...) with a code that fails the test: the
\* promise rejects
ToolCloseFail(j, code) ==
    /\ job[j].pc \in {"rec", "tag"}
    /\ ~ExitedOk(code)
    /\ job' = [job EXCEPT ![j] =
                  IF job[j].pc = "rec" THEN AfterRecording([job[j] EXCEPT !.code = code], "exit")
                  ELSE AfterTagging([job[j] EXCEPT !.code = code], "exit")]
    /\ UNCHANGED <<now, ticks, scope, authToken, fs>>
    /\ UNCHANGED guideVars
    /\ UNCHANGED otherVars
    /\ UNCHANGED authVars

\* ffmpeg.on("error", (err) => ...): the process could not be started
ToolStartError(j) ==
    /\ job[j].pc \in {"rec", "tag"}
    /\ ~job[j].opened
    /\ job' = [job EXCEPT ![j] =
                  IF job[j].pc = "rec" THEN AfterRecording([job[j] EXCEPT !.code = NoCode], "start")
                  ELSE AfterTagging([job[j] EXCEPT !.code = NoCode], "start")]
    /\ UNCHANGED <<now, ticks, scope, authToken, fs>>
    /\ UNCHANGED guideVars
    /\ UNCHANGED otherVars
    /\ UNCHANGED authVars

\* the outcome the handlers give an event: the error event of a failed start
\* carries no exit code
EventOutcome(code) ==
    IF code = NoCode THEN "start" ELSE IF ExitedOk(code) THEN "ok" ELSE "exit"

\* a later event that settles the invocation once more and lets the caller
\* go on from it
OnLateEvent_SettlesAgain(jr, tool, code) ==
    IF tool = "rec"
    THEN AfterRecording([jr EXCEPT !.late = jr.late \cup {tool}, !.code = code], EventOutcome(code))
    ELSE AfterTagging([jr EXCEPT !.late = jr.late \cup {tool}, !.code = code], EventOutcome(code))

\* a second event of a process whose first event has settled the promise:
\* the handler calls resolve or reject on a settled promise, which does
\* nothing (the close handler also logs a line for code 0)
OnLateEvent(jr, tool, code) ==
    [jr EXCEPT !.late = jr.late \cup {tool}]

\* the first event of the tool's process has arrived
FirstEventSeen(jr, tool) ==
    IF tool = "rec" THEN jr.recRes # "none" ELSE jr.tagRes \notin {"none", "samepath"}

\* the other event of a process arrives after the first: a close after the
\* error of a failed start, an error after a close
ToolLateEvent(j, tool, code) ==
    /\ FirstEventSeen(job[j], tool)
    /\ tool \notin job[j].late
    /\ job' = [job EXCEPT ![j] = OnLateEvent(job[j], tool, code)]
    /\ UNCHANGED <<now, ticks, scope, authToken, fs>>
    /\ UNCHANGED guideVars
    /\ UNCHANGED otherVars
    /\ UNCHANGED authVars

\* what the tool writes to its diagnostic output
StderrChunks == {"size=", "Error"}

\* a stderr handler that rejects the promise on a chunk that reports an error
OnStderr_Rejects(jr, data) ==
    IF data # "Error" THEN [jr EXCEPT !.stderr = Append(jr.stderr, data)]
    ELSE IF jr.pc = "rec" THEN AfterRecording([jr EXCEPT !.stderr = Append(jr.stderr, data)], "stderr")
    ELSE AfterTagging([jr EXCEPT !.stderr = Append(jr.stderr, data)], "stderr")

\* ffmpeg.stderr.on("data", (data) => { console.log(`ffmpeg: ${data}`); })
OnStderr(jr, data) ==
    [jr EXCEPT !.stderr = Append(jr.stderr, data)]

\* the running tool writes a chunk to its diagnostic output
ToolStderr(j, data) ==
    /\ job[j].pc \in {"rec", "tag"}
    /\ Len(job[j].stderr) < scope.stderr
    /\ job' = [job EXCEPT ![j] = OnStderr(job[j], data)]
    /\ UNCHANGED <<now, ticks, scope, authToken, fs>>
    /\ UNCHANGED guideVars
    /\ UNCHANGED otherVars
    /\ UNCHANGED authVars

\* fetch(programImage) settles: a rejection or a non-success status is thrown
\* and caught; otherwise imageResponse.arrayBuffer() is awaited
CoverResponse(j, outcome) ==
    /\ job[j].pc = "cover"
    /\ job' = [job EXCEPT ![j] =
                  IF outcome = "ok" THEN [job[j] EXCEPT !.pc = "coverBody"]
                  ELSE Catch([job[j] EXCEPT !.coverRes = outcome])]
    /\ UNCHANGED <<now, ticks, scope, authToken, fs>>
    /\ UNCHANGED guideVars
    /\ UNCHANGED otherVars
    /\ UNCHANGED authVars

\* arrayBuffer() settles: the temporary image path is named after the clock and
\* writeFile(tempImagePath, imageBuffer) is awaited
CoverBody(j, ok) ==
    /\ job[j].pc = "coverBody"
    /\ job' = [job EXCEPT ![j] =
                  IF ok THEN [job[j] EXCEPT !.pc = "coverWrite", !.tempImagePath = TempImagePath(now)]
                  ELSE Catch([job[j] EXCEPT !.coverRes = "body"])]
    /\ UNCHANGED <<now, ticks, scope, authToken, fs>>
    /\ UNCHANGED guideVars
    /\ UNCHANGED otherVars
    /\ UNCHANGED authVars

\* writeFile(tempImagePath, imageBuffer) resolves: addMetadata is called
CoverWriteOk(j) ==
    /\ job[j].pc = "coverWrite"
    /\ fs' = Put(fs, job[j].tempImagePath, Image(j))
    /\ job' = [job EXCEPT ![j] =
                  addMetadata([job[j] EXCEPT !.coverRes = "ok"],
                              job[j].tempAudioPath, job[j].finalPath, job[j].tempImagePath)]
    /\ UNCHANGED <<now, ticks, scope, authToken>>
    /\ UNCHANGED guideVars
    /\ UNCHANGED otherVars
    /\ UNCHANGED authVars

\* writeFile(tempImagePath, imageBuffer) rejects, with or without a file left
CoverWriteFail(j, leftover) ==
    /\ job[j].pc = "coverWrite"
    /\ fs' = IF leftover THEN Put(fs, job[j].tempImagePath, Partial(j)) ELSE fs
    /\ job' = [job EXCEPT ![j] = Catch([job[j] EXCEPT !.coverRes = "write"])]
    /\ UNCHANGED <<now, ticks, scope, authToken>>
    /\ UNCHANGED guideVars
    /\ UNCHANGED otherVars
    /\ UNCHANGED authVars

\* rename(tempAudioPath, finalOutputPath) resolves: return finalOutputPath,
\* then the finally block awaits rm(tempAudioPath, { force: true })
RenameOk(j) ==
    /\ job[j].pc = "rename"
    /\ Exists(fs, job[j].tempAudioPath)
    /\ fs' = Rename(fs, job[j].tempAudioPath, job[j].finalPath)
    /\ job' = [job EXCEPT ![j] =
                  [job[j] EXCEPT !.pc = "rmAudio", !.renameRes = "ok", !.pending = Ok(job[j].finalPath)]]
    /\ UNCHANGED <<now, ticks, scope, authToken>>
    /\ UNCHANGED guideVars
    /\ UNCHANGED otherVars
    /\ UNCHANGED authVars

\* rename rejects (other file system, no save directory, ...): the exception
\* leaves the catch block, the finally block runs before it leaves the call
RenameFail(j) ==
    /\ job[j].pc = "rename"
    /\ job' = [job EXCEPT ![j] =
                  [job[j] EXCEPT !.pc = "rmAudio", !.renameRes = "err", !.pending = Err("rename")]]
    /\ UNCHANGED <<now, ticks, scope, authToken, fs>>
    /\ UNCHANGED guideVars
    /\ UNCHANGED otherVars
    /\ UNCHANGED authVars

\* rm(tempAudioPath, { force: true }) resolves (a missing file is no error):
\* if (tempImagePath) await rm(tempImagePath, { force: true })
RmAudioOk(j) ==
    /\ job[j].pc = "rmAudio"
    /\ fs' = Remove(fs, job[j].tempAudioPath)
    /\ LET jr == [job[j] EXCEPT !.rmAudioRes = "ok"]
       IN  job' = [job EXCEPT ![j] =
                      IF jr.tempImagePath # NoPath THEN [jr EXCEPT !.pc = "rmImage"]
                      ELSE Settle(jr)]
    /\ UNCHANGED <<now, ticks, scope, authToken>>
    /\ UNCHANGED guideVars
    /\ UNCHANGED otherVars
    /\ UNCHANGED authVars

\* rm(tempAudioPath) rejects on a file it cannot delete: the exception leaves
\* the finally block and replaces what try/catch had settled
RmAudioFail(j) ==
    /\ job[j].pc = "rmAudio"
    /\ Exists(fs, job[j].tempAudioPath)
    /\ job' = [job EXCEPT ![j] = Reject([job[j] EXCEPT !.rmAudioRes = "err"], "rm")]
    /\ UNCHANGED <<now, ticks, scope, authToken, fs>>
    /\ UNCHANGED guideVars
    /\ UNCHANGED otherVars
    /\ UNCHANGED authVars

\* rm(tempImagePath, { force: true }) resolves: the finally block is done
RmImageOk(j) ==
    /\ job[j].pc = "rmImage"
    /\ fs' = Remove(fs, job[j].tempImagePath)
    /\ job' = [job EXCEPT ![j] = Settle([job[j] EXCEPT !.rmImageRes = "ok"])]
    /\ UNCHANGED <<now, ticks, scope, authToken>>
    /\ UNCHANGED guideVars
    /\ UNCHANGED otherVars
    /\ UNCHANGED authVars

\* rm(tempImagePath) rejects on a file it cannot delete
RmImageFail(j) ==
    /\ job[j].pc = "rmImage"
    /\ Exists(fs, job[j].tempImagePath)
    /\ job' = [job EXCEPT ![j] = Reject([job[j] EXCEPT !.rmImageRes = "err"], "rm")]
    /\ UNCHANGED <<now, ticks, scope, authToken, fs>>
    /\ UNCHANGED guideVars
    /\ UNCHANGED otherVars
    /\ UNCHANGED authVars

(***************************************************************************)
(* Authentication: authenticate, authenticate1, the two header readers and *)
(* authenticate2.                                                          *)
(***************************************************************************)
Sessions == {"a1", "a2"}

\* RadikoClient.AUTH_KEY, character by character
AUTH_KEY == <<"b","c","d","1","5","1","0","7","3","c","0","3","b","3","5","2","e","1","e","f","2","f","d","6","6","c","3","2","2","0","9","d","a","9","c","a","0","a","f","a">>

\* headers.get(name): null when the header is absent, else its value
NoHeader == [absent |-> TRUE]
Header(v) == [absent |-> FALSE, value |-> v]

\* a JavaScript number: an integer or NaN
Num(n) == [nan |-> FALSE, n |-> n]
NaN == [nan |-> TRUE, n |-> 0]

DigitChars == <<"0", "1", "2", "3", "4", "5", "6", "7", "8", "9">>
DigitValue(ch) == (CHOOSE i \in 1..10 : DigitChars[i] = ch) - 1
IsDigit(ch) == \E i \in 1..10 : DigitChars[i] = ch

\* the value of a string of decimal digits
RECURSIVE ParseDecimal(_)
ParseDecimal(str) ==
    IF Len(str) = 0 THEN 0
    ELSE 10 * ParseDecimal(SubSeq(str, 1, Len(str) - 1)) + DigitValue(str[Len(str)])

\* Number(str) for the strings a header carries: decimal digits give their
\* value, the empty string gives 0, anything else NaN
Number(str) ==
    IF \A i \in 1..Len(str) : IsDigit(str[i]) THEN Num(ParseDecimal(str)) ELSE NaN

\* offset + length of JavaScript
Plus(a, b) == IF a.nan \/ b.nan THEN NaN ELSE Num(a.n + b.n)

\* the index String.prototype.slice derives from an argument: NaN counts as 0,
\* a negative value counts from the end, and the result is clamped to 0..len
SliceIndex(x, len) ==
    LET i == IF x.nan THEN 0 ELSE x.n
    IN  IF i < 0 THEN (IF len + i > 0 THEN len + i ELSE 0)
        ELSE (IF i < len THEN i ELSE len)

\* str.slice(start, end)
Slice(str, start, end) ==
    LET from == SliceIndex(start, Len(str))
        to == SliceIndex(end, Len(str))
    IN  IF from >= to THEN << >> ELSE SubSeq(str, from + 1, to)

\* the UTF-8 byte of a character of AUTH_KEY (digits and a to f)
HexChars == <<"a", "b", "c", "d", "e", "f">>
ByteOf(ch) ==
    IF IsDigit(ch) THEN 48 + DigitValue(ch)
    ELSE 96 + (CHOOSE i \in 1..6 : HexChars[i] = ch)

\* Buffer.from(str): the bytes of the string
BufferFrom(str) == [i \in 1..Len(str) |-> ByteOf(str[i])]

Base64Alphabet == <<"A","B","C","D","E","F","G","H","I","J","K","L","M","N","O","P","Q","R","S","T","U","V","W","X","Y","Z","a","b","c","d","e","f","g","h","i","j","k","l","m","n","o","p","q","r","s","t","u","v","w","x","y","z","0","1","2","3","4","5","6","7","8","9","+","/">>
Base64Char(sextet) == Base64Alphabet[sextet + 1]

\* buffer.toString("base64"): three bytes become four characters, a last
\* group of one or two bytes is padded with "="
RECURSIVE ToBase64(_)
ToBase64(bytes) ==
    IF Len(bytes) = 0 THEN << >>
    ELSE IF Len(bytes) = 1
    THEN <<Base64Char(bytes[1] \div 4), Base64Char((bytes[1] % 4) * 16), "=", "=">>
    ELSE IF Len(bytes) = 2
    THEN <<Base64Char(bytes[1] \div 4),
           Base64Char((bytes[1] % 4) * 16 + bytes[2] \div 16),
           Base64Char((bytes[2] % 16) * 4), "=">>
    ELSE <<Base64Char(bytes[1] \div 4),
           Base64Char((bytes[1] % 4) * 16 + bytes[2] \div 16),
           Base64Char((bytes[2] % 16) * 4 + bytes[3] \div 64),
           Base64Char(bytes[3] % 64)>> \o ToBase64(SubSeq(bytes, 4, Len(bytes)))

\* the tokens the handshake-start response carries
IssuedTokens == {"token-1", "token-2"}
\* the X-Radiko-AuthToken, X-Radiko-KeyOffset and X-Radiko-KeyLength headers
\* of the responses the handshake-start endpoint answers with
AuthTokenHeaders == {NoHeader, Header("")} \cup {Header(t) : t \in IssuedTokens}
KeyOffsetHeaders == {NoHeader, Header(<< >>), Header(<<"0">>), Header(<<"4">>), Header(<<"3", "0">>), Header(<<"x">>)}
KeyLengthHeaders == {NoHeader, Header(<< >>), Header(<<"1">>), Header(<<"2">>), Header(<<"1", "2">>), Header(<<"1", "6">>)}
Auth1Responses == [ok : BOOLEAN, authToken : AuthTokenHeaders, keyOffset : KeyOffsetHeaders, keyLength : KeyLengthHeaders]

\* the bodies the handshake-confirm endpoint answers with: fields and the
\* commas between them, at most one field between two commas
Auth2Bodies == {<<"JP13", ",", "Tokyo", ",", "tokyo Japan">>, <<"JP27">>, <<",", "Osaka">>, << >>}

\* the last field taken for the first
FirstField_Last(body) ==
    IF Len(body) = 0 \/ body[Len(body)] = "," THEN "" ELSE body[Len(body)]

\* body.split(",")[0]
FirstField(body) ==
    IF Len(body) = 0 \/ body[1] = "," THEN "" ELSE body[1]

NoResponse == [ok |-> FALSE, authToken |-> NoHeader, keyOffset |-> NoHeader, keyLength |-> NoHeader]

\* a session with no authenticate call in progress
IdleAuth ==
    [pc |-> "idle", reqs |-> << >>, auth1Response |-> NoResponse,
     authToken |-> Null, partialKey |-> << >>, auth2Status |-> "none",
     body |-> << >>, result |-> Pending]

\* the request of authenticate1
Auth1Request == [url |-> "https://radiko.jp/v2/api/auth1", authToken |-> Null, partialKey |-> << >>]

\* the request of authenticate2 without the token
Auth2Request_Anonymous(token, partialKey) ==
    [url |-> "https://radiko.jp/v2/api/auth2", authToken |-> Null, partialKey |-> partialKey]

\* the request of authenticate2, with its X-Radiko-AuthToken and
\* X-Radiko-PartialKey headers
Auth2Request(token, partialKey) ==
    [url |-> "https://radiko.jp/v2/api/auth2", authToken |-> token, partialKey |-> partialKey]

\* the slice with the length taken for the end index
PartialKeyBase_EndIsLength(offset, length) ==
    Slice(AUTH_KEY, offset, length)

\* const partialKeyBase = RadikoClient.AUTH_KEY.slice(offset, offset + length)
PartialKeyBase(offset, length) ==
    Slice(AUTH_KEY, offset, Plus(offset, length))

\* getAuthTokenFromAuthResponse: the token, or the error thrown
getAuthTokenFromAuthResponse(auth_response) ==
    LET authtoken == auth_response.authToken
    IN  IF authtoken.absent \/ authtoken.value = "" THEN Err("no token")
        ELSE Ok(authtoken.value)

\* the partial key with a missing length header read as NaN
getPartialKeyFromAuthResponse_AnyLength(auth_response) ==
    LET offsetHeader == auth_response.keyOffset
        lengthHeader == auth_response.keyLength
        length == IF lengthHeader.absent THEN NaN ELSE Number(lengthHeader.value)
    IN  IF offsetHeader.absent \/ Len(offsetHeader.value) = 0 THEN Err("no key")
        ELSE Ok(ToBase64(BufferFrom(PartialKeyBase(Number(offsetHeader.value), length))))

\* getPartialKeyFromAuthResponse: the partial key, or the error thrown
getPartialKeyFromAuthResponse(auth_response) ==
    LET offsetHeader == auth_response.keyOffset
        lengthHeader == auth_response.keyLength
    IN  IF \/ offsetHeader.absent \/ Len(offsetHeader.value) = 0
           \/ lengthHeader.absent \/ Len(lengthHeader.value) = 0
        THEN Err("no key")
        ELSE Ok(ToBase64(BufferFrom(PartialKeyBase(Number(offsetHeader.value), Number(lengthHeader.value)))))

\* an exception leaves authenticate: the promise rejects
AuthFail(a, kind) ==
    [a EXCEPT !.pc = "done", !.result = Err(kind)]

\* authenticate from the handshake-start response to the fetch of authenticate2
AfterAuth1(a, response) ==
    LET seen == [a EXCEPT !.auth1Response = response]
        authToken1 == getAuthTokenFromAuthResponse(response)
        partialKey == getPartialKeyFromAuthResponse(response)
    IN  IF ~response.ok THEN AuthFail(seen, "auth1")
        ELSE IF ~authToken1.ok THEN AuthFail(seen, authToken1.error)
        ELSE IF ~partialKey.ok THEN AuthFail(seen, partialKey.error)
        ELSE [seen EXCEPT !.pc = "auth2",
                          !.authToken = authToken1.value,
                          !.partialKey = partialKey.value,
                          !.reqs = Append(a.reqs, Auth2Request(authToken1.value, partialKey.value))]

\* authenticate() up to the fetch of authenticate1
Authenticate(s) ==
    /\ s \in scope.sessions
    /\ auth[s].pc = "idle"
    /\ auth' = [auth EXCEPT ![s] = [auth[s] EXCEPT !.pc = "auth1", !.reqs = <<Auth1Request>>]]
    /\ UNCHANGED <<now, ticks, scope, authToken, fs, job, areaCode>>
    /\ UNCHANGED guideVars
    /\ UNCHANGED otherVars

\* the handshake-start response arrives
Auth1Response(s, response) ==
    /\ auth[s].pc = "auth1"
    /\ auth' = [auth EXCEPT ![s] = AfterAuth1(auth[s], response)]
    /\ UNCHANGED <<now, ticks, scope, authToken, fs, job, areaCode>>
    /\ UNCHANGED guideVars
    /\ UNCHANGED otherVars

\* a fetch of the handshake rejects (no connection)
AuthFetchReject(s) ==
    /\ auth[s].pc \in {"auth1", "auth2"}
    /\ auth' = [auth EXCEPT ![s] = AuthFail(auth[s], "fetch")]
    /\ UNCHANGED <<now, ticks, scope, authToken, fs, job, areaCode>>
    /\ UNCHANGED guideVars
    /\ UNCHANGED otherVars

\* the handshake-confirm response arrives: a non-success status is thrown,
\* otherwise response.text() is awaited
Auth2Response(s, ok) ==
    /\ auth[s].pc = "auth2"
    /\ auth' = [auth EXCEPT ![s] =
                   IF ~ok THEN AuthFail([auth[s] EXCEPT !.auth2Status = "notok"], "auth2")
                   ELSE [auth[s] EXCEPT !.pc = "text", !.auth2Status = "ok"]]
    /\ UNCHANGED <<now, ticks, scope, authToken, fs, job, areaCode>>
    /\ UNCHANGED guideVars
    /\ UNCHANGED otherVars

\* the first token stored is kept, the area code is replaced
Auth2Body_KeepsToken(s, body) ==
    /\ auth[s].pc = "text"
    /\ authToken' = IF authToken = Null THEN auth[s].authToken ELSE authToken
    /\ areaCode' = FirstField(body)
    /\ auth' = [auth EXCEPT ![s] =
                   [auth[s] EXCEPT !.pc = "done", !.body = body,
                                   !.result = Ok([authToken |-> auth[s].authToken, areaCode |-> FirstField(body)])]]
    /\ UNCHANGED <<now, ticks, scope, fs, job>>
    /\ UNCHANGED guideVars
    /\ UNCHANGED otherVars

\* response.text() resolves: the area code is split off, token and area code
\* are stored in the client and returned
Auth2Body(s, body) ==
    /\ auth[s].pc = "text"
    /\ authToken' = auth[s].authToken
    /\ areaCode' = FirstField(body)
    /\ auth' = [auth EXCEPT ![s] =
                   [auth[s] EXCEPT !.pc = "done", !.body = body,
                                   !.result = Ok([authToken |-> auth[s].authToken, areaCode |-> FirstField(body)])]]
    /\ UNCHANGED <<now, ticks, scope, fs, job>>
    /\ UNCHANGED guideVars
    /\ UNCHANGED otherVars

\* the token stored before the body has been read
Auth2BodyReject_Stores(s) ==
    /\ auth[s].pc = "text"
    /\ authToken' = auth[s].authToken
    /\ auth' = [auth EXCEPT ![s] = AuthFail(auth[s], "text")]
    /\ UNCHANGED <<now, ticks, scope, fs, job, areaCode>>
    /\ UNCHANGED guideVars
    /\ UNCHANGED otherVars

\* response.text() rejects (the connection breaks while the body is read)
Auth2BodyReject(s) ==
    /\ auth[s].pc = "text"
    /\ auth' = [auth EXCEPT ![s] = AuthFail(auth[s], "text")]
    /\ UNCHANGED <<now, ticks, scope, authToken, fs, job, areaCode>>
    /\ UNCHANGED guideVars
    /\ UNCHANGED otherVars

(***************************************************************************)
(* Functions without state: parseStationListXml, parseRadikoProgramXml,    *)
(* the file name of recordProgram, formatTime of utils.ts.                 *)
(***************************************************************************)
\* the station nodes of a station-list document, in document order
StationNodes == <<[id |-> "TBS", name |-> "TBS Radio"], [id |-> "QRR", name |-> "Bunka Hoso"], [id |-> "LFR", name |-> "Nippon Hoso"], [id |-> "INT", name |-> "interfm"], [id |-> "FMT", name |-> "TOKYO FM"]>>

\* the station-list documents: the first n station nodes under stations
StationListDocs == {[stations |-> SubSeq(StationNodes, 1, n)] : n \in 0..MaxStations}

\* the program-guide documents handed to the parser
GuideDocs == {Doc0, Doc1, Doc2, DocX}

\* RadikoClient.parseStationListXml: stationsArray.map(...) is called on what
\* the parser gives for jsonObj.stations.station; only an array has map, on
\* anything else the call throws a TypeError
parseStationListXml(xmlData) ==
    LET stationsArray == XmlChildren(xmlData.stations)
    IN  IF stationsArray.kind = "array"
        THEN Ok([i \in 1..Len(stationsArray.items) |->
                    [id |-> stationsArray.items[i].id, name |-> stationsArray.items[i].name]])
        ELSE Err("TypeError")

\* the characters program titles are made of here
TitleChars == {"a", "_", "/", ":", "?"}
\* the program titles: every string of at most MaxTitleLen characters
Titles == UNION {[1..n -> TitleChars] : n \in 0..MaxTitleLen}

\* str.substring(start, end): both indexes clamped to 0..length, the smaller
\* one taken as the start
Substring(str, start, end) ==
    LET clamp(i) == IF i < 0 THEN 0 ELSE IF i > Len(str) THEN Len(str) ELSE i
        from == IF clamp(start) < clamp(end) THEN clamp(start) ELSE clamp(end)
        to == IF clamp(start) < clamp(end) THEN clamp(end) ELSE clamp(start)
    IN  SubSeq(str, from + 1, to)

\* formatTime without the test of the length
formatTime_NoLengthTest(dateTimeString) ==
    Substring(dateTimeString, 8, 10) \o <<":">> \o Substring(dateTimeString, 10, 12)

\* formatTime of utils.ts
formatTime(dateTimeString) ==
    IF Len(dateTimeString) # 14 THEN << >>
    ELSE Substring(dateTimeString, 8, 10) \o <<":">> \o Substring(dateTimeString, 10, 12)

\* the strings formatTime is called with: every prefix of two strings of 16
\* characters
TimeTexts == {<<"2","0","2","3","0","1","0","1","1","3","0","5","0","0","9","9">>, <<"2","0","2","3","1","0","2","6","2","3","5","9","4","8","0","0">>}
TimeStrings == {SubSeq(text, 1, n) : text \in TimeTexts, n \in 0..16}

\* no call
NoLibCall == [fn |-> "none", arg |-> NoBody, ret |-> Pending]

\* the calls of the functions without state
LibCalls ==
    {[fn |-> "parseStationListXml", arg |-> doc, ret |-> Pending] : doc \in StationListDocs}
    \cup {[fn |-> "parseRadikoProgramXml", arg |-> doc, ret |-> Pending] : doc \in GuideDocs}
    \cup {[fn |-> "formatTime", arg |-> str, ret |-> Pending] : str \in TimeStrings}
    \cup {[fn |-> "finalOutputPath", arg |-> <<dir, id, title, "20230101050000">>, ret |-> Pending] :
             dir \in SaveDirs, id \in StationIds, title \in Titles}

\* the call returns or throws
LibFrame ==
    /\ UNCHANGED <<now, ticks, scope, sl, panel>>
    /\ UNCHANGED recVars
    /\ UNCHANGED guideVars
    /\ UNCHANGED authVars

ParseStationListXml ==
    /\ lib.fn = "parseStationListXml"
    /\ lib.ret = Pending
    /\ lib' = [lib EXCEPT !.ret = parseStationListXml(lib.arg)]
    /\ LibFrame

ParseRadikoProgramXml ==
    /\ lib.fn = "parseRadikoProgramXml"
    /\ lib.ret = Pending
    /\ lib' = [lib EXCEPT !.ret = Ok(parseRadikoProgramXml(lib.arg))]
    /\ LibFrame

FormatTime ==
    /\ lib.fn = "formatTime"
    /\ lib.ret = Pending
    /\ lib' = [lib EXCEPT !.ret = Ok(formatTime(lib.arg))]
    /\ LibFrame

\* the first statements of recordProgram, up to const finalOutputPath
FinalOutputPath ==
    /\ lib.fn = "finalOutputPath"
    /\ lib.ret = Pending
    /\ lib' = [lib EXCEPT !.ret = Ok(finalOutputPath(lib.arg[1], lib.arg[2], lib.arg[3], lib.arg[4]))]
    /\ LibFrame

(***************************************************************************)
(* The all-programs view: fetchAllPrograms from the station list on.       *)
(***************************************************************************)
\* the runs of fetchAllPrograms one view can have in progress: the effect
\* starts one when the view is mounted and one at every change of the date
Runs == {"r1", "r2", "r3"}

\* the dates of the dropdown: today and the day before
ViewDates == {"20230101", "20221231"}

\* a run that has not started
IdleRun == [pc |-> "idle", date |-> NoKey, authed |-> FALSE]

\* the all-programs view before fetchAllPrograms runs: programsByStation is
\* an empty map (here the set of its entries), isLoading is true, the date
\* selected is today, radikoClient is null (clients are named after the run
\* that constructs them), no toast is shown; latest is the run the effect
\* started last, recorded the clients recordProgram was called on, and
\* recording those whose recordProgram has not settled
IdlePanel ==
    [status |-> "idle", shown |-> {}, toast |-> "none",
     date |-> "20230101", isLoading |-> TRUE, radikoClient |-> Null,
     runs |-> [r \in Runs |-> IdleRun], latest |-> Null,
     recorded |-> {}, recording |-> {}]

\* the station of parsedStations whose getPrograms call a caller stands for
StationOf(c) == IF c = "c1" THEN "TBS" ELSE "QRR"

\* station.name of the station list
StationName(stationId) ==
    StationNodes[CHOOSE i \in 1..Len(StationNodes) : StationNodes[i].id = stationId].name

\* the date the view has selected
selectedDate == "20230101"

\* results.forEach: a station whose programs are not empty gets an entry
ProgramsMap(results) ==
    {<<StationName(StationOf(c)), results[c].value>> : c \in {d \in DOMAIN results : Len(results[d].value) > 0}}

\* parsedStations.map(async (station) => ...): every callback runs to the
\* first await of its getPrograms call, the stat of its own cache file
FetchAllPrograms ==
    /\ panel.status = "idle"
    /\ scope.callers # {}
    /\ \A c \in scope.callers : gp[c].pc = "idle"
    /\ gp' = [c \in Callers |->
                 IF c \in scope.callers
                 THEN [IdleCall EXCEPT !.pc = "stat", !.key = <<StationOf(c), selectedDate>>]
                 ELSE gp[c]]
    /\ ncalls' = ncalls + Cardinality(scope.callers)
    /\ panel' = [panel EXCEPT !.status = "loading"]
    /\ UNCHANGED <<now, ticks, dirReady, cache, scope, last, sl, lib>>
    /\ UNCHANGED recVars
    /\ UNCHANGED authVars

\* await Promise.all(allProgramsPromises) resolves, every call having
\* resolved: the map is built and set
PromiseAllResolve ==
    /\ panel.status = "loading"
    /\ \A c \in scope.callers : gp[c].pc = "done" /\ gp[c].result.ok
    /\ panel' = [panel EXCEPT !.status = "shown", !.isLoading = FALSE,
                              !.shown = ProgramsMap([c \in scope.callers |-> gp[c].result])]
    /\ UNCHANGED <<now, ticks, scope, sl, lib>>
    /\ UNCHANGED guideVars
    /\ UNCHANGED recVars
    /\ UNCHANGED authVars

\* await Promise.all(allProgramsPromises) rejects because a call has
\* rejected, whatever the other calls have done or will do: the catch block
\* shows the failure toast and no map is set
PromiseAllReject(c) ==
    /\ panel.status = "loading"
    /\ c \in scope.callers
    /\ gp[c].pc = "done"
    /\ ~gp[c].result.ok
    /\ panel' = [panel EXCEPT !.status = "failed", !.isLoading = FALSE, !.toast = gp[c].result.error]
    /\ UNCHANGED <<now, ticks, scope, sl, lib>>
    /\ UNCHANGED guideVars
    /\ UNCHANGED recVars
    /\ UNCHANGED authVars

(***************************************************************************)
(* The all-programs view as a whole: the effect that runs fetchAllPrograms *)
(* at every change of the date, and handleRecord.  A run is followed from  *)
(* await to await; what its client's calls do in between is not followed.  *)
(***************************************************************************)
\* the map a run builds from the results of its getPrograms calls, which it
\* made for the date it was started with: the programs of that date
ViewMap(date) ==
    {<<StationName(id), <<[ProgA EXCEPT !.ft = date]>> >> : id \in StationIds}

\* the date of the programs the view displays
DisplayedDates == {e[2][1].ft : e \in panel.shown}

\* finally { setIsLoading(false) }: the run is over
Finally(p, r) ==
    [p EXCEPT !.isLoading = FALSE, !.runs[r].pc = "done"]

\* the client reference set before authenticate() is awaited
AfterAuthenticate_ClientFirst(p, r, ok) ==
    IF ok THEN [p EXCEPT !.runs[r].pc = "stations", !.runs[r].authed = TRUE, !.radikoClient = r]
    ELSE Finally([p EXCEPT !.toast = "load failed", !.radikoClient = r], r)

\* await client.authenticate() settles: setRadikoClient(client) and
\* getStationList is awaited, or the catch block shows the failure toast
AfterAuthenticate(p, r, ok) ==
    IF ok THEN [p EXCEPT !.runs[r].pc = "stations", !.runs[r].authed = TRUE, !.radikoClient = r]
    ELSE Finally([p EXCEPT !.toast = "load failed"], r)

\* the view frame: nothing of the client library's state is followed
ViewFrame ==
    /\ UNCHANGED <<now, ticks, scope, sl, lib>>
    /\ UNCHANGED guideVars
    /\ UNCHANGED recVars
    /\ UNCHANGED authVars

\* onChange of the dropdown: setSelectedDate(newValue); the effect depends on
\* selectedDate and starts fetchAllPrograms anew: setIsLoading(true), a new
\* client, await client.authenticate().  Runs in progress are not cancelled
SelectDate(r, newValue) ==
    /\ newValue # panel.date
    /\ panel.runs[r].pc = "idle"
    /\ panel' = [panel EXCEPT !.date = newValue, !.isLoading = TRUE, !.latest = r,
                              !.runs[r] = [pc |-> "auth", date |-> newValue, authed |-> FALSE]]
    /\ ViewFrame

\* await client.authenticate() of run r settles
AuthenticateSettles(r, ok) ==
    /\ panel.runs[r].pc = "auth"
    /\ panel' = AfterAuthenticate(panel, r, ok)
    /\ ViewFrame

\* await client.getStationList() of run r settles: with stations (the
\* getPrograms calls are made and Promise.all is awaited), with none (toast
\* and return), or with an exception
StationListSettles(r, outcome) ==
    /\ panel.runs[r].pc = "stations"
    /\ panel' = IF outcome = "stations" THEN [panel EXCEPT !.runs[r].pc = "programs"]
                ELSE IF outcome = "none" THEN Finally([panel EXCEPT !.toast = "no stations"], r)
                ELSE Finally([panel EXCEPT !.toast = "load failed"], r)
    /\ ViewFrame

\* await Promise.all(allProgramsPromises) of run r settles: the map of the
\* run's date is set, or the catch block shows the failure toast
ProgramsSettle(r, ok) ==
    /\ panel.runs[r].pc = "programs"
    /\ panel' = IF ok THEN [Finally([panel EXCEPT !.shown = ViewMap(panel.runs[r].date)], r)
                              EXCEPT !.runs[r].pc = "shown"]
                ELSE Finally([panel EXCEPT !.toast = "load failed"], r)
    /\ ViewFrame

\* handleRecord(program): without a client the toast reports it and nothing
\* is recorded; otherwise the toast announces the recording and
\* recordProgram is called on the client
HandleRecord ==
    /\ panel' = IF panel.radikoClient = Null THEN [panel EXCEPT !.toast = "client not initialized"]
                ELSE [panel EXCEPT !.toast = "recording started",
                                   !.recorded = panel.recorded \cup {panel.radikoClient},
                                   !.recording = panel.recording \cup {panel.radikoClient}]
    /\ ViewFrame

\* await radikoClient.recordProgram(...) of handleRecord settles: the toast
\* reports the file or the failure
RecordProgramSettles(client, ok) ==
    /\ client \in panel.recording
    /\ panel' = [panel EXCEPT !.toast = IF ok THEN "recorded" ELSE "recording failed",
                              !.recording = panel.recording \ {client}]
    /\ ViewFrame

(***************************************************************************)
(* getStationList and fetchStationListXml.                                 *)
(***************************************************************************)
\* the area codes getStationList is called with: none, the empty string, one
ExplicitAreaCodes == {Undefined, "", "JP14"}
\* this.areaCode: as constructed, and after an authenticate() whose
\* handshake-confirm body began with a comma or with an area code
StoredAreaCodes == {Null, "", "JP13"}

\* !x for an optional string
Falsy(x) == x \in {Undefined, Null, ""}

\* the stored area code taken before the argument
ResolveAreaCode_StoredFirst(areaCodeArg, stored) ==
    IF ~Falsy(stored) THEN stored ELSE areaCodeArg

\* const code = areaCode || this.areaCode
ResolveAreaCode(areaCodeArg, stored) ==
    IF ~Falsy(areaCodeArg) THEN areaCodeArg ELSE stored

\* a caller with no getStationList call in progress
IdleList ==
    [pc |-> "idle", arg |-> Undefined, stored |-> Null, net |-> 0, url |-> Undefined,
     body |-> NoBody, result |-> Pending]

ListFrame ==
    /\ UNCHANGED <<now, ticks, scope, panel, lib>>
    /\ UNCHANGED recVars
    /\ UNCHANGED guideVars
    /\ UNCHANGED authVars

\* getStationList(areaCode) up to the fetch of fetchStationListXml
GetStationList(c, areaCodeArg) ==
    /\ c \in scope.listers
    /\ sl[c].pc = "idle"
    /\ LET call == [sl[c] EXCEPT !.arg = areaCodeArg, !.stored = areaCode]
           code == ResolveAreaCode(areaCodeArg, areaCode)
       IN  sl' = [sl EXCEPT ![c] =
                     IF Falsy(code) THEN [call EXCEPT !.pc = "done", !.result = Err("config")]
                     ELSE [call EXCEPT !.pc = "fetch", !.net = 1, !.url = code]]
    /\ ListFrame

\* the station-list response arrives: a non-success status is thrown,
\* otherwise response.text() is awaited
StationListResponse(c, ok) ==
    /\ sl[c].pc = "fetch"
    /\ sl' = [sl EXCEPT ![c] =
                 IF ~ok THEN [sl[c] EXCEPT !.pc = "done", !.result = Err("network")]
                 ELSE [sl[c] EXCEPT !.pc = "text"]]
    /\ ListFrame

\* fetch or response.text() rejects
StationListReject(c) ==
    /\ sl[c].pc \in {"fetch", "text"}
    /\ sl' = [sl EXCEPT ![c] = [sl[c] EXCEPT !.pc = "done", !.result = Err("fetch")]]
    /\ ListFrame

\* response.text() resolves: return RadikoClient.parseStationListXml(xmlData)
StationListBody(c, xmlData) ==
    /\ sl[c].pc = "text"
    /\ sl' = [sl EXCEPT ![c] =
                 [sl[c] EXCEPT !.pc = "done", !.body = xmlData, !.result = parseStationListXml(xmlData)]]
    /\ ListFrame

InitCommon ==
    /\ now = 0
    /\ ticks = 0
    /\ dirReady = FALSE
    /\ cache = [k \in Keys |-> NoFile]
    /\ gp = [c \in Callers |-> IdleCall]
    /\ ncalls = 0
    /\ last = [k \in Keys |-> IdleCall]
    /\ fs = [path \in {} |-> NoFile]
    /\ job = [j \in Jobs |-> IdleJob]
    /\ areaCode = Null
    /\ auth = [s \in Sessions |-> IdleAuth]
    /\ lib = NoLibCall
    /\ sl = [c \in Callers |-> IdleList]
    /\ panel = IdlePanel

\* one client, its calls made one after the other
InitCache ==
    /\ InitCommon
    /\ scope = [callers |-> {"c1"}, stations |-> {"TBS"}, jobs |-> {}, taggers |-> {}, sessions |-> {}, listers |-> {}, stderr |-> 0]
    /\ authToken = Null

NextCache ==
    \/ \E c \in Callers, k \in Keys : GetPrograms(c, k)
    \/ \E c \in Callers : StatDone(c)
    \/ \E c \in Callers : ReadDone(c)
    \/ \E c \in Callers, b \in Bodies : FetchOk(c, b)
    \/ \E c \in Callers : FetchNotOk(c)
    \/ \E c \in Callers : FetchReject(c)
    \/ \E c \in Callers : WriteOk(c)
    \/ \E c \in Callers : WriteFail(c)
    \/ \E c \in Callers : GetProgramsReturn(c)
    \/ MkdirDone
    \/ \E d \in Deltas : Tick(d)

SpecCache == InitCache /\ [][NextCache]_vars

\* two getPrograms calls for one key on one client, overlapping or not, each
\* caller calling once and keeping what its call settled with
InitRace ==
    /\ InitCommon
    /\ scope = [callers |-> Callers, stations |-> {"TBS"}, jobs |-> {}, taggers |-> {}, sessions |-> {}, listers |-> {},
                stderr |-> 0]
    /\ authToken = Null

NextRace ==
    \/ \E c \in Callers, k \in Keys : GetPrograms(c, k)
    \/ \E c \in Callers : StatDone(c)
    \/ \E c \in Callers : ReadDone(c)
    \/ \E c \in Callers, b \in Bodies : FetchOk(c, b)
    \/ \E c \in Callers : FetchNotOk(c)
    \/ \E c \in Callers : FetchReject(c)
    \/ \E c \in Callers : WriteOpen(c)
    \/ \E c \in Callers : WriteFail(c)
    \/ \E c \in Callers : WriteData(c)
    \/ \E c \in Callers : WriteDataFail(c)
    \/ MkdirDone
    \/ \E d \in Deltas : Tick(d)

SpecRace == InitRace /\ [][NextRace]_vars

\* the all-programs view loads the guide of two stations; the cache
\* directory holds what earlier runs have left, the clock advances by a
\* freshness window at a time
CachedBefore == {NoFile, [exists |-> TRUE, body |-> Doc1, mtime |-> 0]}

InitAll ==
    /\ now = 0
    /\ ticks = 0
    /\ dirReady = FALSE
    /\ cache \in [Keys -> CachedBefore]
    /\ gp = [c \in Callers |-> IdleCall]
    /\ ncalls = 0
    /\ last = [k \in Keys |-> IdleCall]
    /\ fs = [path \in {} |-> NoFile]
    /\ job = [j \in Jobs |-> IdleJob]
    /\ areaCode = "JP13"
    /\ auth = [s \in Sessions |-> IdleAuth]
    /\ authToken = "token-1"
    /\ scope = [callers |-> Callers, stations |-> StationIds, jobs |-> {}, taggers |-> {}, sessions |-> {}, listers |-> {},
                stderr |-> 0]
    /\ sl = [c \in Callers |-> IdleList]
    /\ panel = IdlePanel
    /\ lib = NoLibCall

NextAll ==
    \/ FetchAllPrograms
    \/ \E c \in Callers : StatDone(c)
    \/ \E c \in Callers : ReadDone(c)
    \/ \E c \in Callers, b \in Bodies : FetchOk(c, b)
    \/ \E c \in Callers : FetchNotOk(c)
    \/ \E c \in Callers : FetchReject(c)
    \/ \E c \in Callers : WriteOk(c)
    \/ \E c \in Callers : WriteFail(c)
    \/ PromiseAllResolve
    \/ \E c \in Callers : PromiseAllReject(c)
    \/ MkdirDone
    \/ Tick(cacheExpiry)

SpecAll == InitAll /\ [][NextAll]_vars

\* the all-programs view after it has been mounted: the effect has started
\* the first run for today's date
InitView ==
    /\ InitCommon
    /\ scope = [callers |-> {}, stations |-> {}, jobs |-> {}, taggers |-> {}, sessions |-> {}, listers |-> {},
                stderr |-> 0]
    /\ authToken = Null

\* InitCommon leaves the view before the mount; the first step is the mount
Mount ==
    /\ \A r \in Runs : panel.runs[r].pc = "idle"
    /\ panel' = [panel EXCEPT !.isLoading = TRUE, !.latest = "r1",
                              !.runs["r1"] = [pc |-> "auth", date |-> panel.date, authed |-> FALSE]]
    /\ ViewFrame

NextView ==
    \/ Mount
    \/ \E r \in Runs, d \in ViewDates : SelectDate(r, d)
    \/ \E r \in Runs, ok \in BOOLEAN : AuthenticateSettles(r, ok)
    \/ \E r \in Runs, outcome \in {"stations", "none", "error"} : StationListSettles(r, outcome)
    \/ \E r \in Runs, ok \in BOOLEAN : ProgramsSettle(r, ok)
    \/ HandleRecord
    \/ \E client \in Runs, ok \in BOOLEAN : RecordProgramSettles(client, ok)

SpecView == InitView /\ [][NextView]_vars

\* one recording job and one direct addMetadata call, on a client as
\* constructed or after a successful authenticate()
InitRecord ==
    /\ InitCommon
    /\ scope = [callers |-> {}, stations |-> {}, jobs |-> {"j1"}, taggers |-> {"j2"}, sessions |-> {}, listers |-> {}, stderr |-> 0]
    /\ authToken \in {Null} \cup Tokens

NextRecord ==
    \/ \E j \in Jobs, p \in Recordable, dir \in SaveDirs : RecordProgram(j, p, dir)
    \/ \E j \in Jobs, audio \in DOMAIN fs \cup {MissingPath} :
          \E output \in {audio, TaggedPath} : AddMetadata(j, audio, output)
    \/ \E j \in Jobs : RecordToTemp(j)
    \/ \E j \in Jobs : ToolOpensOutput(j)
    \/ \E j \in Jobs, code \in ExitCodes : ToolCloseOk(j, code)
    \/ \E j \in Jobs, code \in ExitCodes : ToolCloseFail(j, code)
    \/ \E j \in Jobs : ToolStartError(j)
    \/ \E j \in Jobs, outcome \in {"ok", "notok", "reject"} : CoverResponse(j, outcome)
    \/ \E j \in Jobs, ok \in BOOLEAN : CoverBody(j, ok)
    \/ \E j \in Jobs : CoverWriteOk(j)
    \/ \E j \in Jobs, leftover \in BOOLEAN : CoverWriteFail(j, leftover)
    \/ \E j \in Jobs : RenameOk(j)
    \/ \E j \in Jobs : RenameFail(j)
    \/ \E j \in Jobs : RmAudioOk(j)
    \/ \E j \in Jobs : RmAudioFail(j)
    \/ \E j \in Jobs : RmImageOk(j)
    \/ \E j \in Jobs : RmImageFail(j)
    \/ \E d \in Deltas : Tick(d)

SpecRecord == InitRecord /\ [][NextRecord]_vars

\* one recording without a cover image and one direct addMetadata call, the
\* tools writing to their diagnostic output
InitTool ==
    /\ InitCommon
    /\ scope = [callers |-> {}, stations |-> {}, jobs |-> {"j1"}, taggers |-> {"j2"}, sessions |-> {}, listers |-> {},
                stderr |-> MaxStderr]
    /\ authToken \in Tokens

NextTool ==
    \/ \E j \in Jobs, p \in {q \in Recordable : q.img = ""}, dir \in SaveDirs : RecordProgram(j, p, dir)
    \/ \E j \in Jobs, audio \in DOMAIN fs \cup {MissingPath} : AddMetadata(j, audio, TaggedPath)
    \/ \E j \in Jobs : ToolOpensOutput(j)
    \/ \E j \in Jobs, code \in ExitCodes : ToolCloseOk(j, code)
    \/ \E j \in Jobs, code \in ExitCodes : ToolCloseFail(j, code)
    \/ \E j \in Jobs : ToolStartError(j)
    \/ \E j \in Jobs, data \in StderrChunks : ToolStderr(j, data)

SpecTool == InitTool /\ [][NextTool]_vars

\* two recordProgram calls for programs with a cover image on one
\* authenticated client, overlapping or not, the clock advancing by a
\* millisecond at a time; of the failures only the tool's exit code
InitJobs ==
    /\ InitCommon
    /\ scope = [callers |-> {}, stations |-> {}, jobs |-> Jobs, taggers |-> {}, sessions |-> {}, listers |-> {},
                stderr |-> 0]
    /\ authToken \in Tokens

NextJobs ==
    \/ \E j \in Jobs, p \in {q \in Recordable : q.img # ""}, dir \in SaveDirs : RecordProgram(j, p, dir)
    \/ \E j \in Jobs : RecordToTemp(j)
    \/ \E j \in Jobs : ToolOpensOutput(j)
    \/ \E j \in Jobs : ToolCloseOk(j, 0)
    \/ \E j \in Jobs : ToolCloseFail(j, 1)
    \/ \E j \in Jobs : CoverResponse(j, "ok")
    \/ \E j \in Jobs : CoverBody(j, TRUE)
    \/ \E j \in Jobs : CoverWriteOk(j)
    \/ \E j \in Jobs : RenameOk(j)
    \/ \E j \in Jobs : RmAudioOk(j)
    \/ \E j \in Jobs : RmImageOk(j)
    \/ Tick(1)

SpecJobs == InitJobs /\ [][NextJobs]_vars

\* one recordProgram call for a program with a cover image on an
\* authenticated client, every process delivering a second event after its
\* first; the clock stands still
InitEvents ==
    /\ InitCommon
    /\ scope = [callers |-> {}, stations |-> {}, jobs |-> {"j1"}, taggers |-> {}, sessions |-> {}, listers |-> {},
                stderr |-> 0]
    /\ authToken \in Tokens

NextEvents ==
    \/ \E j \in Jobs, p \in {q \in Recordable : q.img # ""}, dir \in SaveDirs : RecordProgram(j, p, dir)
    \/ \E j \in Jobs : RecordToTemp(j)
    \/ \E j \in Jobs : ToolOpensOutput(j)
    \/ \E j \in Jobs, code \in ExitCodes : ToolCloseOk(j, code)
    \/ \E j \in Jobs, code \in ExitCodes : ToolCloseFail(j, code)
    \/ \E j \in Jobs : ToolStartError(j)
    \/ \E j \in Jobs, tool \in {"rec", "tag"}, code \in ExitCodes \cup {NoCode} : ToolLateEvent(j, tool, code)
    \/ \E j \in Jobs, outcome \in {"ok", "notok", "reject"} : CoverResponse(j, outcome)
    \/ \E j \in Jobs, ok \in BOOLEAN : CoverBody(j, ok)
    \/ \E j \in Jobs : CoverWriteOk(j)
    \/ \E j \in Jobs, leftover \in BOOLEAN : CoverWriteFail(j, leftover)
    \/ \E j \in Jobs : RenameOk(j)
    \/ \E j \in Jobs : RenameFail(j)
    \/ \E j \in Jobs : RmAudioOk(j)
    \/ \E j \in Jobs : RmAudioFail(j)
    \/ \E j \in Jobs : RmImageOk(j)
    \/ \E j \in Jobs : RmImageFail(j)

SpecEvents == InitEvents /\ [][NextEvents]_vars

\* two authenticate calls on one client as constructed, overlapping or not
InitAuth ==
    /\ InitCommon
    /\ scope = [callers |-> {}, stations |-> {}, jobs |-> {}, taggers |-> {}, sessions |-> Sessions, listers |-> {}, stderr |-> 0]
    /\ authToken = Null

NextAuth ==
    \/ \E s \in Sessions : Authenticate(s)
    \/ \E s \in Sessions, response \in Auth1Responses : Auth1Response(s, response)
    \/ \E s \in Sessions : AuthFetchReject(s)
    \/ \E s \in Sessions, ok \in BOOLEAN : Auth2Response(s, ok)
    \/ \E s \in Sessions, body \in Auth2Bodies : Auth2Body(s, body)
    \/ \E s \in Sessions : Auth2BodyReject(s)

SpecAuth == InitAuth /\ [][NextAuth]_vars

\* one call of a function without state, on arguments drawn from the sets above
InitLib ==
    /\ now = 0
    /\ ticks = 0
    /\ dirReady = FALSE
    /\ cache = [k \in Keys |-> NoFile]
    /\ gp = [c \in Callers |-> IdleCall]
    /\ ncalls = 0
    /\ last = [k \in Keys |-> IdleCall]
    /\ fs = [path \in {} |-> NoFile]
    /\ job = [j \in Jobs |-> IdleJob]
    /\ areaCode = Null
    /\ auth = [s \in Sessions |-> IdleAuth]
    /\ authToken = Null
    /\ scope = [callers |-> {}, stations |-> {}, jobs |-> {}, taggers |-> {}, sessions |-> {}, listers |-> {}, stderr |-> 0]
    /\ sl = [c \in Callers |-> IdleList]
    /\ panel = IdlePanel
    /\ lib \in LibCalls

NextLib ==
    \/ ParseStationListXml
    \/ ParseRadikoProgramXml
    \/ FormatTime
    \/ FinalOutputPath

SpecLib == InitLib /\ [][NextLib]_vars

\* two getStationList calls on a client as constructed or after a successful
\* authenticate()
InitStations ==
    /\ now = 0
    /\ ticks = 0
    /\ dirReady = FALSE
    /\ cache = [k \in Keys |-> NoFile]
    /\ gp = [c \in Callers |-> IdleCall]
    /\ ncalls = 0
    /\ last = [k \in Keys |-> IdleCall]
    /\ fs = [path \in {} |-> NoFile]
    /\ job = [j \in Jobs |-> IdleJob]
    /\ auth = [s \in Sessions |-> IdleAuth]
    /\ lib = NoLibCall
    /\ sl = [c \in Callers |-> IdleList]
    /\ panel = IdlePanel
    /\ scope = [callers |-> {}, stations |-> {}, jobs |-> {}, taggers |-> {}, sessions |-> {}, listers |-> Callers, stderr |-> 0]
    /\ areaCode \in StoredAreaCodes
    /\ authToken = IF areaCode = Null THEN Null ELSE "token-1"

NextStations ==
    \/ \E c \in Callers, areaCodeArg \in ExplicitAreaCodes : GetStationList(c, areaCodeArg)
    \/ \E c \in Callers, ok \in BOOLEAN : StationListResponse(c, ok)
    \/ \E c \in Callers : StationListReject(c)
    \/ \E c \in Callers, xmlData \in StationListDocs : StationListBody(c, xmlData)

SpecStations == InitStations /\ [][NextStations]_vars

(***************************************************************************)
(* The program-guide cache: claims C5 to C10, under SpecCache.             *)
(***************************************************************************)
\* one hour in milliseconds, the freshness window the claims speak of
OneHour == 60 * 60 * 1000

\* the calls that have settled and not yet been handed to the caller
SettledNow == {gp[c] : c \in {d \in Callers : gp[d].pc = "done"}}

\* the settled calls the state remembers
Settled == SettledNow \cup {last[k] : k \in {j \in Keys : last[j].pc = "done"}}

\* the calls the state remembers, in progress or settled
Seen == {gp[c] : c \in Callers} \cup {last[k] : k \in Keys}

\* the call found the cache file and saw an age below one hour
SawFresh(call) ==
    call.statRes = "ok" /\ call.statAt - call.statMt < OneHour

\* what a call that sent the request returns, from the response alone
FromFetchAlone(call) ==
    IF call.fetchRes = "ok" THEN Ok(parseRadikoProgramXml(call.fetched))
    ELSE IF call.fetchRes = "notok" THEN Err("network")
    ELSE Err("fetch")

\* C5: a getPrograms call that finds a cache entry of its key with an age below
\* one hour (stat and read succeed) returns the programs parsed from the body
\* the cache file holds and sends no network request.
C5_FreshEntryServedFromCache ==
    \A call \in SettledNow :
        (SawFresh(call) /\ call.readRes # "err") =>
            /\ call.net = 0
            /\ call.readRes = "ok"
            /\ call.fetchRes = "none"
            /\ cache[call.key] # NoFile
            /\ call.result = Ok(parseRadikoProgramXml(cache[call.key].body))

\* a call was served from an entry written earlier, one millisecond before the
\* entry would have expired
C5_Witness ==
    \E call \in SettledNow :
        /\ SawFresh(call)
        /\ call.statAt - call.statMt = OneHour - 1
        /\ call.readRes = "ok"
        /\ call.net = 0
        /\ call.result.ok

\* C6: of two getPrograms calls made one after the other for one key, the first
\* finding no cache file and returning programs, the second made less than one
\* hour after the first wrote the file, exactly one sends a network request; a
\* call that finds the entry one hour old or older sends a request of its own
\* and, when it returns programs, has overwritten the file with the body it
\* fetched.
C6_OneFetchPerWindow ==
    \A call \in SettledNow :
        LET prev == last[call.key]
        IN  /\ ( /\ prev.pc = "done"
                 /\ prev.statRes = "enoent"
                 /\ prev.result.ok
                 /\ call.statRes # "err"
                 /\ call.readRes # "err"
                 /\ call.statAt - prev.writeAt < OneHour )
               => prev.net + call.net = 1
            /\ (call.statRes = "ok" /\ call.statAt - call.statMt >= OneHour)
               => /\ call.net = 1
                  /\ call.result.ok =>
                        /\ cache[call.key] = [exists |-> TRUE, body |-> call.fetched, mtime |-> call.writeAt]
                        /\ call.result = Ok(parseRadikoProgramXml(call.fetched))

\* the first call filled the empty cache, the second was served from it and has
\* returned, and a third call, made when the entry was exactly one hour old,
\* fetched again and replaced the body
C6_Witness ==
    \E call \in SettledNow :
        /\ last[call.key].pc = "done"
        /\ last[call.key].net = 0
        /\ last[call.key].readRes = "ok"
        /\ call.statRes = "ok"
        /\ call.statAt - call.statMt = OneHour
        /\ call.net = 1
        /\ call.result.ok
        /\ call.fetched # last[call.key].readBody

\* C7: the cached body is read, and returned, only by a call whose freshness
\* test saw now minus the file's modification time strictly below one hour; an
\* entry exactly one hour old or older is never read.
C7_StaleEntryNeverRead ==
    \A call \in Seen :
        /\ (call.pc = "read" \/ call.readRes # "none") => SawFresh(call)
        /\ (call.pc = "done" /\ call.result.ok /\ call.net = 0) => SawFresh(call)
        /\ (call.statRes = "ok" /\ call.statAt - call.statMt >= OneHour) =>
              (call.pc # "read" /\ call.readRes = "none")

\* an entry was read at the age of one hour less a millisecond, and the next
\* call found it exactly one hour old and sent a request instead of reading it
C7_Witness ==
    \E call \in SettledNow :
        /\ last[call.key].pc = "done"
        /\ last[call.key].readRes = "ok"
        /\ last[call.key].statAt - last[call.key].statMt = OneHour - 1
        /\ call.statRes = "ok"
        /\ call.statAt - call.statMt = OneHour
        /\ call.readRes = "none"
        /\ call.net = 1

\* C8: when the write of the fetched body to the cache file fails, getPrograms
\* does not fail: it returns the programs parsed from the fetched body.
C8_CacheWriteFailureIsNotFatal ==
    \A call \in Settled :
        call.writeRes = "err" => call.result = Ok(parseRadikoProgramXml(call.fetched))

C10_CacheIoFailureIsMiss ==
    \A call \in Settled :
        (call.statRes = "err" \/ call.readRes = "err") =>
            /\ call.net = 1
            /\ call.result = FromFetchAlone(call)

(***************************************************************************)
(* The recording pipeline: claims C1 to C4, under SpecRecord.              *)
(***************************************************************************)
\* the recordProgram calls with a cover image that have returned or failed
ExitedWithCover == {j \in Jobs : job[j].pc = "done" /\ job[j].hasCover}

\* the cover download failed: the request, the body or the write of the image
CoverFailed(jr) == jr.coverRes \in {"notok", "reject", "body", "write"}

\* the tagging tool failed: a non-zero exit code or no start
TaggingFailed(jr) == jr.tagRes \in {"exit", "start"}

\* no file is left at a temporary path the job has named
NoTempFileOf(jr) ==
    /\ ~Exists(fs, jr.tempAudioPath)
    /\ ~Exists(fs, jr.tempImagePath)

\* C1: on every exit path of a recordProgram call with a cover image (success,
\* recording-tool failure, cover-download failure, tagging failure, failure of
\* the fallback rename) no temporary audio file and no temporary image file of
\* the job exists when the call returns or fails.
C1_NoTempFileOnAnyExit ==
    \A j \in ExitedWithCover : NoTempFileOf(job[j])

\* C2: once the raw recording has succeeded, a failure of the cover download or
\* of the tagging tool does not fail the call: it returns the final output path.
C2_LateFailureReturnsFinalPath ==
    \A j \in ExitedWithCover :
        (job[j].recRes = "ok" /\ (CoverFailed(job[j]) \/ TaggingFailed(job[j]))) =>
            job[j].result = Ok(job[j].finalPath)

\* C3: when the tagging step fails, after the call the final path holds the raw
\* recorded audio and neither temporary file exists.
C3_TaggingFailureKeepsRawAudio ==
    \A j \in ExitedWithCover :
        TaggingFailed(job[j]) =>
            /\ Exists(fs, job[j].finalPath)
            /\ fs[job[j].finalPath] = Raw(j)
            /\ NoTempFileOf(job[j])

\* C4: a failure while deleting a temporary file does not fail the call (when
\* the final file was produced the call still returns the final path) and does
\* not keep the deletion of the other temporary file from being attempted.
C4_CleanupFailureIsNotSurfaced ==
    \A j \in ExitedWithCover :
        (job[j].rmAudioRes = "err" \/ job[j].rmImageRes = "err") =>
            /\ job[j].pending = Ok(job[j].finalPath) => job[j].result = Ok(job[j].finalPath)
            /\ job[j].tempImagePath # NoPath => job[j].rmImageRes # "none"

(***************************************************************************)
(* The recording pipeline: claims C11 to C16, under SpecRecord.            *)
(***************************************************************************)
\* the jobs on which recordProgram has been called
Recording == {j \in Jobs : job[j].pc # "idle" /\ ~job[j].direct}

\* the jobs on which addMetadata has been called directly
Tagging == {j \in Jobs : job[j].pc # "idle" /\ job[j].direct}

\* the error of a tool that exited with the given code
ExitError(code) == [ok |-> FALSE, error |-> "exit", exitCode |-> code]

\* C11: recordProgram on a client that holds no auth token fails with the
\* authentication error with no tool process spawned, no network request made
\* and no file created; no recording tool process runs while the stored token
\* is absent.
C11_NoTokenNoRecording ==
    \A j \in Jobs :
        /\ job[j].pc = "rec" => authToken # Null
        /\ (j \in Recording /\ authToken = Null) =>
              /\ job[j].pc = "done"
              /\ job[j].result = Err("auth")
              /\ job[j].spawns = 0
              /\ job[j].fetches = 0
              /\ job[j].out = NoPath
              /\ job[j].tempAudioPath = NoPath
              /\ DOMAIN fs = {}

\* recordProgram was called on a client without a token and has failed, with
\* nothing spawned, requested or written
C11_Witness ==
    \E j \in Recording :
        /\ authToken = Null
        /\ job[j].result = Err("auth")
        /\ job[j].spawns = 0
        /\ DOMAIN fs = {}

\* C12: recordProgram with no cover image spawns exactly one tool process,
\* directs its output to the computed final path, creates no temporary file and
\* performs no download and no tagging step.
C12_NoCoverRecordsToFinalPath ==
    \A j \in Recording :
        (~job[j].hasCover /\ authToken # Null) =>
            /\ job[j].pc \in {"rec", "done"}
            /\ job[j].spawns = 1
            /\ job[j].out = job[j].finalPath
            /\ job[j].finalPath.kind = "final"
            /\ job[j].tempAudioPath = NoPath
            /\ job[j].tempImagePath = NoPath
            /\ job[j].fetches = 0
            /\ job[j].coverRes = "none"
            /\ job[j].tagRes = "none"
            /\ job[j].renameRes = "none"
            /\ \A path \in DOMAIN fs : path.kind = "final"

\* a recording without cover image has returned the final path, which holds
\* the complete recording, after one spawn
C12_Witness ==
    \E j \in Recording :
        /\ ~job[j].hasCover
        /\ job[j].pc = "done"
        /\ job[j].result = Ok(job[j].finalPath)
        /\ job[j].spawns = 1
        /\ DOMAIN fs = {job[j].finalPath}
        /\ fs[job[j].finalPath] = Raw(j)

\* C13: recordProgram with a cover image directs the recording tool's output to
\* a temporary path, never to the final path; a file is at the final path only
\* after the recording tool has exited successfully, put there by the tagging
\* tool or by the fallback rename.
C13_CoverRecordsToTempPath ==
    \A j \in Recording :
        job[j].hasCover =>
            /\ job[j].pc = "rec" =>
                  /\ job[j].out = job[j].tempAudioPath
                  /\ job[j].out.kind = "temp"
                  /\ job[j].out # job[j].finalPath
            /\ Exists(fs, job[j].finalPath) =>
                  /\ job[j].recRes = "ok"
                  /\ job[j].recCode = 0
                  /\ IF fs[job[j].finalPath].data = "raw" THEN job[j].renameRes = "ok"
                     ELSE /\ job[j].out = job[j].finalPath
                          /\ (job[j].pc = "tag" /\ job[j].opened) \/ job[j].tagRes \in {"ok", "exit"}

\* a recording with a cover image has returned and the final path holds the
\* tagged recording
C13_Witness ==
    \E j \in Recording :
        /\ job[j].hasCover
        /\ job[j].pc = "done"
        /\ job[j].recRes = "ok"
        /\ job[j].tagRes = "ok"
        /\ fs[job[j].finalPath] = Tagged(j)

\* C14: a recording job is never retried and a failed recording step is
\* terminal: when the recording tool exits non-zero or cannot be started,
\* recordProgram fails, the recording tool has been spawned once, and no cover
\* download, no tagging process and no rename into the final path follows.
C14_FailedRecordingIsTerminal ==
    \A j \in Recording :
        /\ job[j].pc = "rec" => job[j].spawns = 1
        /\ job[j].recRes \in {"exit", "start"} =>
              /\ job[j].pc = "done"
              /\ ~job[j].result.ok
              /\ job[j].spawns = 1
              /\ job[j].fetches = 0
              /\ job[j].coverRes = "none"
              /\ job[j].tagRes = "none"
              /\ job[j].renameRes = "none"
              /\ job[j].hasCover => ~Exists(fs, job[j].finalPath)

\* the recording tool of a job with a cover image exited with a code other
\* than 0 and the call has failed after its one spawn
C14_Witness ==
    \E j \in Recording :
        /\ job[j].hasCover
        /\ job[j].recRes = "exit"
        /\ job[j].pc = "done"
        /\ job[j].spawns = 1

\* C15: a tool invocation (recording or tagging) fails with an error carrying
\* the exit code when the process exits with a code other than 0, fails with a
\* different error when the process cannot be started, and succeeds only when
\* the process exits with code 0.
C15_ToolOutcomeFollowsExitCode ==
    \A j \in Jobs :
        /\ job[j].recRes = "exit" =>
              (job[j].recCode # 0 /\ job[j].recOut = ExitError(job[j].recCode) /\ job[j].result = job[j].recOut)
        /\ job[j].tagRes = "exit" =>
              (job[j].tagCode # 0 /\ job[j].tagOut = ExitError(job[j].tagCode))
        /\ job[j].recRes = "start" =>
              (job[j].recOut = Err("start") /\ job[j].result = job[j].recOut)
        /\ job[j].tagRes = "start" => job[j].tagOut = Err("start")
        /\ job[j].recOut.ok => (job[j].recRes = "ok" /\ job[j].recCode = 0)
        /\ job[j].tagOut.ok => (job[j].tagRes = "ok" /\ job[j].tagCode = 0)
        /\ (job[j].direct /\ job[j].pc = "done") => job[j].result = job[j].tagOut
        /\ \A code \in ExitCodes : ExitError(code) # Err("start")

\* the recording tool exited with 0 and the tagging tool with 255 in a
\* recordProgram call, and the tool of a direct addMetadata call could not be
\* started
C15_Witness ==
    /\ \E j \in Recording :
          /\ job[j].recOut = Ok(job[j].tempAudioPath)
          /\ job[j].tagOut = ExitError(255)
    /\ \E j \in Tagging :
          /\ job[j].tagOut = Err("start")
          /\ job[j].result = Err("start")

\* C16: addMetadata called with an input audio path equal to the output path
\* fails at once with the configuration error: no process is spawned and no
\* file is opened.
C16_SamePathsRejected ==
    \A j \in Tagging :
        job[j].in = job[j].finalPath =>
            /\ job[j].pc = "done"
            /\ job[j].result = Err("samepath")
            /\ job[j].spawns = 0
            /\ ~job[j].opened
            /\ job[j].out = NoPath

\* addMetadata was called with the path of an existing recording as input and
\* output and has failed, the recording untouched
C16_Witness ==
    \E j \in Tagging, k \in Recording :
        /\ job[j].in = job[j].finalPath
        /\ job[j].in = job[k].finalPath
        /\ fs[job[j].in] = Raw(k)
        /\ job[j].result = Err("samepath")
        /\ job[j].spawns = 0

(***************************************************************************)
(* Authentication: claims C17 to C20, under SpecAuth.                      *)
(***************************************************************************)
\* the authenticate calls that have returned
Authenticated == {s \in Sessions : auth[s].pc = "done" /\ auth[s].result.ok}

\* the authenticate calls that have sent the handshake-confirm request
PastAuth1 == {s \in Sessions : Len(auth[s].reqs) = 2}

\* the call returns in this step
Returns(s) == auth[s].pc # "done" /\ auth'[s].pc = "done" /\ auth'[s].result.ok

\* a returned call has issued two requests, the handshake-start request first,
\* the second carrying the token of the first response, and returns that token
C17_TwoRequestsInOrder ==
    \A s \in Authenticated :
        /\ Len(auth[s].reqs) = 2
        /\ auth[s].reqs[1] = Auth1Request
        /\ auth[s].reqs[2].url = "https://radiko.jp/v2/api/auth2"
        /\ ~auth[s].auth1Response.authToken.absent
        /\ auth[s].reqs[2].authToken = auth[s].auth1Response.authToken.value
        /\ auth[s].result.value.authToken = auth[s].auth1Response.authToken.value

\* the step in which a call returns leaves the returned token and area code in
\* the client; the second request is only sent by the step that receives the
\* first response
C17_ReturnStores ==
    \A s \in Sessions :
        /\ Returns(s) =>
              /\ authToken' = auth'[s].result.value.authToken
              /\ areaCode' = auth'[s].result.value.areaCode
        /\ Len(auth'[s].reqs) = 2 /\ Len(auth[s].reqs) # 2 =>
              /\ auth[s].pc = "auth1"
              /\ auth[s].reqs = <<Auth1Request>>
              /\ auth'[s].auth1Response.ok

\* C17: a successful authenticate() issues exactly two requests, the
\* handshake-start request strictly before the handshake-confirm request,
\* sends in the second the token received from the first, returns that token
\* with the area code, and stores exactly the returned token and area code in
\* the client.
C17_SuccessfulHandshake ==
    [](C17_TwoRequestsInOrder) /\ [][C17_ReturnStores]_vars

\* two calls have returned with different tokens and the client holds the
\* token and area code of one of them
C17_Witness ==
    /\ Authenticated = Sessions
    /\ auth["a1"].result.value.authToken # auth["a2"].result.value.authToken
    /\ authToken = auth["a2"].result.value.authToken
    /\ areaCode = auth["a2"].result.value.areaCode
    /\ areaCode = "JP13"

\* the handshake-start response is unusable: a non-success status, or one of
\* the three headers is not there
Unusable(response) ==
    \/ ~response.ok
    \/ response.authToken.absent
    \/ response.keyOffset.absent
    \/ response.keyLength.absent

\* C18: authenticate() fails with an authentication error when the
\* handshake-start response has a non-success status or lacks the token, the
\* key-offset or the key-length header, and then no handshake-confirm request
\* is issued.
C18_UnusableAuth1Fails ==
    \A s \in Sessions :
        (auth[s].pc \notin {"idle", "auth1"} /\ Unusable(auth[s].auth1Response)) =>
            /\ auth[s].pc = "done"
            /\ ~auth[s].result.ok
            /\ auth[s].result.error \in {"auth1", "no token", "no key", "fetch"}
            /\ (auth[s].auth1Response # NoResponse => auth[s].result.error # "fetch")
            /\ auth[s].reqs = <<Auth1Request>>

\* a call failed on a successful response that carried the token and the key
\* offset but no key length, with one request sent
C18_Witness ==
    \E s \in Sessions :
        /\ auth[s].pc = "done"
        /\ auth[s].auth1Response.ok
        /\ auth[s].auth1Response.authToken = Header("token-1")
        /\ auth[s].auth1Response.keyOffset = Header(<<"4">>)
        /\ auth[s].auth1Response.keyLength = NoHeader
        /\ auth[s].result = Err("no key")
        /\ Len(auth[s].reqs) = 1

\* area is the first of the comma-separated fields of body
IsFirstFieldOf(area, body) ==
    LET commas == {i \in 1..Len(body) : body[i] = ","}
        fieldEnd == IF commas = {} THEN Len(body) + 1
                    ELSE CHOOSE i \in commas : \A k \in commas : i <= k
    IN  \/ fieldEnd = 1 /\ area = ""
        \/ fieldEnd = 2 /\ area = body[1]

\* C19: authenticate() fails with an authentication error when the
\* handshake-confirm response has a non-success status; on success the area
\* code is the first comma-separated field of the response body.
C19_Auth2StatusAndAreaCode ==
    \A s \in Sessions :
        /\ auth[s].auth2Status = "notok" =>
              /\ auth[s].pc = "done"
              /\ auth[s].result = Err("auth2")
        /\ s \in Authenticated =>
              /\ auth[s].auth2Status = "ok"
              /\ IsFirstFieldOf(auth[s].result.value.areaCode, auth[s].body)

\* one call failed on the status of the handshake-confirm response, the other
\* returned the first field of a body of three fields
C19_Witness ==
    /\ auth["a1"].auth2Status = "notok"
    /\ auth["a1"].result = Err("auth2")
    /\ "a2" \in Authenticated
    /\ Len(auth["a2"].body) = 5
    /\ auth["a2"].result.value.areaCode = "JP13"

\* the value of a base64 character
Base64Value(ch) == (CHOOSE i \in 1..64 : Base64Alphabet[i] = ch) - 1

\* the bytes a base64 text stands for
RECURSIVE FromBase64(_)
FromBase64(text) ==
    IF Len(text) < 4 THEN << >>
    ELSE LET v1 == Base64Value(text[1])
             v2 == Base64Value(text[2])
             rest == FromBase64(SubSeq(text, 5, Len(text)))
         IN  IF text[3] = "=" THEN <<v1 * 4 + v2 \div 16>>
             ELSE IF text[4] = "="
             THEN <<v1 * 4 + v2 \div 16, (v2 % 16) * 16 + Base64Value(text[3]) \div 4>>
             ELSE <<v1 * 4 + v2 \div 16,
                    (v2 % 16) * 16 + Base64Value(text[3]) \div 4,
                    (Base64Value(text[3]) % 4) * 64 + Base64Value(text[4])>> \o rest

\* the base64 text of the 12 characters of the secret from index 4 on
\* ("51073c03b352")
KeyOf4And12 == <<"N","T","E","w","N","z","N","j","M","D","N","i","M","z","U","y">>

\* C20: for every offset and length the handshake-start response supplies (a
\* range that lies within the secret), the partial key sent in the
\* handshake-confirm request is the base64 encoding of the substring of the
\* secret that starts at index offset and has the given length; offset 4 and
\* length 12 select the 12 characters from index 4 on.
C20_PartialKeyIsBase64OfSlice ==
    \A s \in PastAuth1 :
        LET offset == Number(auth[s].auth1Response.keyOffset.value)
            length == Number(auth[s].auth1Response.keyLength.value)
            sent == auth[s].reqs[2].partialKey
        IN  (~offset.nan /\ ~length.nan /\ offset.n + length.n <= Len(AUTH_KEY)) =>
                /\ Len(sent) = 4 * ((length.n + 2) \div 3)
                /\ Len(FromBase64(sent)) = length.n
                /\ \A i \in 1..length.n : FromBase64(sent)[i] = ByteOf(AUTH_KEY[offset.n + i])
                /\ (offset.n = 4 /\ length.n = 12) => sent = KeyOf4And12

\* the handshake-confirm request has been sent with the key of offset 4 and
\* length 12 in one call, and with a padded key of offset 30 and length 2 in
\* the other
C20_Witness ==
    /\ PastAuth1 = Sessions
    /\ auth["a1"].auth1Response.keyOffset = Header(<<"4">>)
    /\ auth["a1"].auth1Response.keyLength = Header(<<"1", "2">>)
    /\ auth["a1"].reqs[2].partialKey = KeyOf4And12
    /\ auth["a2"].auth1Response.keyOffset = Header(<<"3", "0">>)
    /\ auth["a2"].auth1Response.keyLength = Header(<<"2">>)
    /\ auth["a2"].reqs[2].partialKey = <<"O", "W", "Q", "=">>

(***************************************************************************)
(* getStationList: claim C21, under SpecStations.                          *)
(***************************************************************************)
\* an area code is there: a string that is not empty
Available(code) == code \notin {Undefined, Null, ""}

\* C21: getStationList uses the area code it is given when one is given,
\* otherwise the area code stored by the last successful authenticate; when
\* neither is available it fails with the configuration error and issues no
\* network request.
C21_AreaCodeResolution ==
    \A c \in Callers :
        sl[c].pc # "idle" =>
            /\ Available(sl[c].arg) => (sl[c].net = 1 /\ sl[c].url = sl[c].arg)
            /\ (~Available(sl[c].arg) /\ Available(sl[c].stored)) =>
                  (sl[c].net = 1 /\ sl[c].url = sl[c].stored)
            /\ (~Available(sl[c].arg) /\ ~Available(sl[c].stored)) =>
                  /\ sl[c].pc = "done"
                  /\ sl[c].result = Err("config")
                  /\ sl[c].net = 0

\* on a client that holds the area code JP13, one call was given JP14 and
\* requested the list of JP14, the other was given none and requested JP13
C21_Witness ==
    /\ areaCode = "JP13"
    /\ sl["c1"].arg = "JP14"
    /\ sl["c1"].url = "JP14"
    /\ sl["c1"].result.ok
    /\ sl["c2"].arg = Undefined
    /\ sl["c2"].url = "JP13"

(***************************************************************************)
(* Functions without state: claims C22, C23, C27 and C29, under SpecLib.   *)
(***************************************************************************)
\* the call of the function has returned or thrown
Returned(fn) == lib.fn = fn /\ lib.ret # Pending

\* C22: for every station-list document with n station nodes (n >= 1)
\* parseStationListXml returns a sequence of exactly n stations in document
\* order; a document with one station node yields a one-element sequence, not
\* an error.
C22_StationsInDocumentOrder ==
    (Returned("parseStationListXml") /\ Len(lib.arg.stations) >= 1) =>
        /\ lib.ret.ok
        /\ Len(lib.ret.value) = Len(lib.arg.stations)
        /\ \A i \in 1..Len(lib.arg.stations) :
              lib.ret.value[i] = [id |-> lib.arg.stations[i].id, name |-> lib.arg.stations[i].name]

\* C23: a program-guide document with no schedule-entry node makes
\* parseRadikoProgramXml return the empty sequence and not fail.
C23_NoEntriesParseToEmpty ==
    (Returned("parseRadikoProgramXml") /\ Len(lib.arg.progs) = 0) =>
        lib.ret = Ok(<< >>)

\* the parser has returned the empty sequence for a document of a station
\* without schedule entries
C23_Witness ==
    /\ Returned("parseRadikoProgramXml")
    /\ lib.arg = Doc0
    /\ lib.ret = Ok(<< >>)

\* C27: the final output path is the file named from stationId, the sanitized
\* title and startTime in the save directory, the sanitized title being the
\* title with every illegal character replaced by an underscore: it has the
\* title's length, keeps every legal character, holds no illegal character,
\* and sanitizing it again changes nothing.
C27_FinalPathFromSanitizedTitle ==
    Returned("finalOutputPath") =>
        LET title == lib.arg[3]
            name == lib.ret.value.name
        IN  /\ lib.ret.ok
            /\ lib.ret.value.kind = "final"
            /\ Len(name) = 4
            /\ name[1] = lib.arg[1]
            /\ name[2] = lib.arg[2]
            /\ name[4] = lib.arg[4]
            /\ Len(name[3]) = Len(title)
            /\ \A i \in 1..Len(title) :
                  /\ name[3][i] \notin IllegalChars
                  /\ title[i] \in IllegalChars => name[3][i] = "_"
                  /\ title[i] \notin IllegalChars => name[3][i] = title[i]
            /\ safeProgramTitle(name[3]) = name[3]

\* the path of a title with two illegal characters around a legal one
C27_Witness ==
    /\ Returned("finalOutputPath")
    /\ lib.arg[3] = <<"/", "a", "?">>
    /\ lib.ret.value.name = <<"/save", "TBS", <<"_", "a", "_">>, "20230101050000">>

\* C29: formatTime returns the HH:mm substring (characters 8-9 and 10-11) for
\* every input of exactly 14 characters and the empty string for every input
\* of another length, and never fails.
C29_FormatTime ==
    Returned("formatTime") =>
        /\ lib.ret.ok
        /\ lib.ret.value =
              IF Len(lib.arg) = 14
              THEN <<lib.arg[9], lib.arg[10], ":", lib.arg[11], lib.arg[12]>>
              ELSE << >>

\* 20230101130500 gave 13:05
C29_Witness ==
    /\ Returned("formatTime")
    /\ Len(lib.arg) = 14
    /\ lib.ret = Ok(<<"1", "3", ":", "0", "5">>)

(***************************************************************************)
(* Recording: claim C28 under SpecTool, claim C30 under SpecRecord.         *)
(***************************************************************************)

\* the outcome an exit code or a start failure alone gives
OutcomeOf(code) ==
    IF code = NoCode THEN "start" ELSE IF code = 0 THEN "ok" ELSE "exit"

\* a step in which job j's tool has written to its diagnostic output
StderrStep(j) ==
    /\ job'[j].stderr # job[j].stderr
    /\ job'[j].stderr # << >>

\* C28: the outcome of a tool invocation depends only on its exit code or its
\* start failure: a diagnostic-output event, however many came before it and
\* whatever it says, leaves the invocation running (it neither fails nor
\* succeeds by it, no file changes), and every invocation that has settled
\* has the outcome its exit code or start failure gives.
C28_StderrNeverDecides ==
    /\ [](\A j \in Jobs :
            /\ job[j].recRes # "none" => job[j].recRes = OutcomeOf(job[j].recCode)
            /\ job[j].tagRes \notin {"none", "samepath"} => job[j].tagRes = OutcomeOf(job[j].tagCode))
    /\ [][\A j \in Jobs :
            StderrStep(j) =>
                /\ job'[j] = [job[j] EXCEPT !.stderr = job'[j].stderr]
                /\ fs' = fs]_vars

\* a recording has succeeded after its tool reported an error on its
\* diagnostic output, and a tagging has failed by its exit code after
\* diagnostic output that reports none
C28_Witness ==
    \E j \in Jobs, k \in Jobs :
        /\ job[j].recRes = "ok" /\ job[j].stderr = <<"Error", "size=">>
        /\ job[k].tagRes = "exit" /\ job[k].stderr = <<"size=">>

\* a step in which the recordProgram call of job j returns or fails
ExitStep(j) ==
    /\ ~job[j].direct
    /\ job[j].pc # "done"
    /\ job'[j].pc = "done"

\* the audio of job j, as recorded or tagged, is at path
AudioAt(f, path, j) ==
    /\ Exists(f, path)
    /\ f[path] \in {Raw(j), Tagged(j)}

\* C30: after a raw recording has succeeded the recorded audio is never
\* destroyed: at every exit of recordProgram, whether it returns or fails
\* (a failing fallback rename included), the audio is at the final path.
C30_AudioAtFinalPathOnExit ==
    [][\A j \in Jobs :
            ExitStep(j) /\ job'[j].recRes = "ok" => AudioAt(fs', job'[j].finalPath, j)]_vars

(***************************************************************************)
(* Concurrent recordings: claim C24, under SpecJobs.                       *)
(***************************************************************************)

\* a recordProgram call with a cover image that is in progress
InProgress(j) ==
    /\ job[j].hasCover
    /\ job[j].pc \notin {"idle", "done"}

\* C24: any two recording jobs with cover images that are in progress at the
\* same time use different temporary audio paths and different temporary
\* image paths, whatever their start times are.
C24_DistinctTempPaths ==
    \A j \in Jobs, k \in Jobs :
        j # k /\ InProgress(j) /\ InProgress(k) =>
            /\ job[j].tempAudioPath # NoPath => job[j].tempAudioPath # job[k].tempAudioPath
            /\ job[j].tempImagePath # NoPath => job[j].tempImagePath # job[k].tempImagePath

(***************************************************************************)
(* Overlapping getPrograms calls for one key: claim C25, under SpecRace.   *)
(***************************************************************************)

\* call c has sent its request (the cache entry was missing, stale or
\* unreadable) and has settled
Fetched(c) ==
    /\ gp[c].pc = "done"
    /\ gp[c].net = 1

\* the step in which the write of call c completes after the other call has
\* settled: the write that happened last
LastWriteStep(c) ==
    /\ gp[c].pc = "writeData"
    /\ gp'[c].pc = "done"
    /\ gp'[c].writeRes = "ok"
    /\ \A d \in Callers \ {c} : Fetched(d) /\ gp[d].key = gp[c].key /\ gp[d].writeRes = "ok"

\* C25: when two getPrograms calls for the same (stationId, date) overlap on
\* a missing or stale cache entry, neither fails because of the other (a call
\* fails only by its own response or its own write), each returns the
\* programs parsed from the body it fetched itself, and after both have
\* finished the cache file holds the body written by the call whose write
\* happened last.
C25_SameKeyRaceLastWriterWins ==
    /\ [](\A c \in Callers :
            Fetched(c) =>
                /\ ~gp[c].result.ok => gp[c].fetchRes \in {"notok", "reject"} \/ gp[c].writeRes = "err"
                /\ gp[c].result.ok => gp[c].result = Ok(parseRadikoProgramXml(gp[c].fetched)))
    /\ [][\A c \in Callers :
            LastWriteStep(c) => cache'[gp[c].key].body = gp[c].fetched]_vars

(***************************************************************************)
(* Loading the guide of all stations: claim C26, under SpecAll.            *)
(***************************************************************************)

\* the programs the view has obtained for a station: the entry of its map,
\* an empty list when it has none
Obtained(stationId) ==
    IF \E e \in panel.shown : e[1] = StationName(stationId)
    THEN (CHOOSE e \in panel.shown : e[1] = StationName(stationId))[2]
    ELSE << >>

\* at most one program-guide request per station
OneRequestPerStation ==
    \A c \in Callers : gp[c].net <= 1

\* a cache file changes only in the step in which the call for its own key
\* completes its write
OwnKeyWriteStep ==
    \A k \in Keys :
        cache'[k] # cache[k] =>
            \E c \in Callers : gp[c].key = k /\ gp[c].pc = "write" /\ gp'[c].pc = "done"

\* once the load has finished, a station whose own call has succeeded has
\* the programs of that call, whatever the calls for the other stations did
OwnResultObtained ==
    \A c \in scope.callers :
        /\ panel.status \in {"shown", "failed"}
        /\ gp[c].pc = "done"
        /\ gp[c].result.ok
        => Obtained(StationOf(c)) = gp[c].result.value

\* C26: loading the program guide for n stations concurrently issues at most
\* one program-guide network request per station, writes only to the cache
\* file of that station's own (stationId, date) key, and the success or
\* failure of one station's fetch does not change the result obtained for
\* any other station.
C26_StationsLoadIndependently ==
    /\ [](OneRequestPerStation /\ OwnResultObtained)
    /\ [][OwnKeyWriteStep]_vars

(***************************************************************************)
(* Authentication: claims C31 and C32, under SpecAuth.                     *)
(***************************************************************************)

\* the step in which the authenticate call of session s fails
AuthFailStep(s) ==
    /\ auth[s].pc \notin {"idle", "done"}
    /\ auth'[s].pc = "done"
    /\ ~auth'[s].result.ok

\* the step in which the authenticate call of session s returns, both
\* handshake requests having succeeded
AuthSuccessStep(s) ==
    /\ auth[s].pc = "text"
    /\ auth[s].auth1Response.ok
    /\ auth[s].auth2Status = "ok"
    /\ Len(auth[s].reqs) = 2
    /\ auth'[s].pc = "done"
    /\ auth'[s].result.ok

\* C31: a failed authenticate() leaves the client's stored token and area
\* code exactly as they were before the call: the stored pair changes only in
\* the step where both handshake requests have already succeeded, and a
\* client that has never completed a handshake has no stored token.
C31_FailedAuthLeavesStoredPair ==
    /\ []((\A s \in Sessions : ~(auth[s].pc = "done" /\ auth[s].result.ok)) => authToken = Null)
    /\ [][/\ \A s \in Sessions : AuthFailStep(s) => UNCHANGED <<authToken, areaCode>>
          /\ <<authToken, areaCode>>' # <<authToken, areaCode>> => \E s \in Sessions : AuthSuccessStep(s)]_vars

\* an authenticate call has failed while reading the confirm body after
\* another call had stored its pair, and the stored pair is still that one
C31_Witness ==
    \E s \in Sessions, t \in Sessions :
        /\ auth[s].pc = "done" /\ auth[s].result = Err("text")
        /\ auth[s].authToken # authToken
        /\ auth[t].pc = "done" /\ auth[t].result.ok
        /\ auth[t].result.value = [authToken |-> authToken, areaCode |-> areaCode]

\* C32: for any interleaving of concurrent authenticate() calls on one
\* client, in every reachable state the stored token and stored area code
\* were produced by the same authenticate() call (never the token of one call
\* paired with the area code of another).
C32_StoredPairFromOneCall ==
    \/ authToken = Null /\ areaCode = Null
    \/ \E s \in Sessions :
          /\ auth[s].pc = "done"
          /\ auth[s].result.ok
          /\ auth[s].result.value = [authToken |-> authToken, areaCode |-> areaCode]

\* two overlapping calls have both succeeded with different tokens and
\* different area codes
C32_Witness ==
    \E s \in Sessions, t \in Sessions :
        /\ auth[s].pc = "done" /\ auth[s].result.ok
        /\ auth[t].pc = "done" /\ auth[t].result.ok
        /\ auth[s].result.value.authToken # auth[t].result.value.authToken
        /\ auth[s].result.value.areaCode # auth[t].result.value.areaCode
        /\ auth[t].result.value = [authToken |-> authToken, areaCode |-> areaCode]

(***************************************************************************)
(* parseRadikoProgramXml: claim C38, under SpecLib.                        *)
(***************************************************************************)

\* C38: parseRadikoProgramXml returns one program per schedule-entry node in
\* document order (a document with exactly one schedule entry yields a
\* one-element sequence), and every returned program carries the same
\* stationId and stationName, read from the document's station node or set
\* to the fixed unknown sentinels when absent.
C38_OneProgramPerEntry ==
    Returned("parseRadikoProgramXml") =>
        LET doc == lib.arg
            stationId == IF doc.sid = Undefined THEN "unknown station id" ELSE doc.sid
            stationName == IF doc.sname = Undefined THEN "unknown station" ELSE doc.sname
        IN  /\ lib.ret.ok
            /\ Len(lib.ret.value) = Len(doc.progs)
            /\ \A i \in 1..Len(doc.progs) :
                  LET p == lib.ret.value[i]
                      node == doc.progs[i]
                  IN  /\ <<p.id, p.title, p.ft, p.to, p.img, p.pfm>>
                            = <<node.id, node.title, node.ft, node.to, node.img, node.pfm>>
                      /\ p.stationId = stationId
                      /\ p.stationName = stationName

\* the parser has returned a one-element sequence for a document with exactly
\* one schedule entry and no station id, the program carrying the sentinel
C38_Witness ==
    /\ Returned("parseRadikoProgramXml")
    /\ lib.arg = DocX
    /\ Len(lib.ret.value) = 1
    /\ lib.ret.value[1].stationId = "unknown station id"

(***************************************************************************)
(* Reads of the cache: claim C35, under SpecCache.                         *)
(***************************************************************************)

\* the call was served from the cache file: it has read it and sent no request
Served(call) ==
    call.readRes = "ok" /\ call.net = 0

\* C35: a getPrograms call that is served from a fresh cache entry leaves the
\* cache file unchanged (no write, modification time not refreshed), so an
\* entry stops being served one hour after it was last written no matter how
\* often it is read in between: the file changes only in the step in which a
\* call completes its write, a served call leaves the file as its stat found
\* it, and a call that finds an entry one hour after its write sends a
\* request although the entry was served before.
C35_ReadLeavesEntryUnchanged ==
    /\ [](\A call \in SettledNow :
            /\ Served(call) =>
                  /\ cache[call.key] = [exists |-> TRUE, body |-> call.readBody, mtime |-> call.statMt]
                  /\ call.statAt - cache[call.key].mtime < OneHour
            /\ ( /\ Served(last[call.key])
                 /\ call.statRes = "ok"
                 /\ call.statAt - call.statMt >= OneHour )
               => call.readRes = "none" /\ call.net = 1)
    /\ [][cache' # cache =>
            \E c \in Callers : gp[c].pc = "write" /\ gp'[c].writeRes = "ok"]_vars

\* an entry was served, and less than one hour after that read, one hour
\* after its write, the next call found it stale and sent a request
C35_Witness ==
    \E call \in SettledNow :
        /\ Served(last[call.key])
        /\ call.statRes = "ok"
        /\ call.statMt = last[call.key].statMt
        /\ call.statAt - call.statMt >= OneHour
        /\ call.statAt - last[call.key].statAt < OneHour
        /\ call.net = 1

(***************************************************************************)
(* The order of the steps with a cover image: claim C33, under SpecRecord. *)
(***************************************************************************)

\* the cover request of job j has been sent only after its recording tool
\* has exited with code 0
CoverAfterRecording(j) ==
    job[j].fetches >= 1 => job[j].recRes = "ok" /\ job[j].recCode = 0

\* the step in which recordProgram spawns the tagging tool for job j finds
\* the image in its temporary file
TagSpawnAfterImage(j) ==
    (~job'[j].direct /\ job[j].pc # "tag" /\ job'[j].pc = "tag") =>
        /\ job'[j].coverRes = "ok"
        /\ Exists(fs', job'[j].tempImagePath)
        /\ fs'[job'[j].tempImagePath] = Image(j)

\* the step in which a recordProgram call with a cover image returns or
\* fails comes after the cleanup of the finally block has run
ExitAfterCleanup(j) ==
    (ExitStep(j) /\ job'[j].hasCover) => job'[j].rmAudioRes # "none"

\* C33: in the cover-image path of recordProgram the steps happen in a fixed
\* order: the cover download starts only after the recording tool has exited
\* with code 0, the tagging tool is spawned only after the image has been
\* written to its temporary file, and the call returns or fails only after
\* the temporary-file cleanup has run.
C33_CoverPathOrder ==
    /\ [](\A j \in Jobs : CoverAfterRecording(j))
    /\ [][\A j \in Jobs : TagSpawnAfterImage(j) /\ ExitAfterCleanup(j)]_vars

(***************************************************************************)
(* The events of one tool process: claim C36, under SpecEvents.             *)
(***************************************************************************)

\* a step in which a second event of one of job j's processes arrives
LateStep(j) ==
    job'[j].late # job[j].late

\* what the invocations of job j have settled with stays what it is
OutcomesKept(j) ==
    /\ job[j].recRes # "none" =>
          <<job'[j].recRes, job'[j].recCode, job'[j].recOut>> = <<job[j].recRes, job[j].recCode, job[j].recOut>>
    /\ job[j].tagRes # "none" =>
          <<job'[j].tagRes, job'[j].tagCode, job'[j].tagOut>> = <<job[j].tagRes, job[j].tagCode, job[j].tagOut>>
    /\ job[j].pc = "done" => job'[j].result = job[j].result

\* C36: each external tool invocation produces exactly one outcome: whichever
\* of the process events (start error, close with exit code) arrives first
\* decides whether the call resolves or rejects, and any later event for the
\* same process does not change that outcome and does not make the calling
\* job continue twice (the later event changes nothing of the job and no
\* file, and what an invocation has settled with never changes).
C36_OneOutcomePerInvocation ==
    /\ [](\A j \in Jobs :
            /\ job[j].recRes # "none" => job[j].recRes = OutcomeOf(job[j].recCode)
            /\ job[j].spawns <= 2 /\ job[j].fetches <= 1)
    /\ [][\A j \in Jobs :
            /\ OutcomesKept(j)
            /\ LateStep(j) =>
                  /\ job'[j] = [job[j] EXCEPT !.late = job'[j].late]
                  /\ fs' = fs]_vars

\* the recording has succeeded and the tagging could not be started; both
\* processes have delivered their second event, and the call has made one
\* cover request, spawned two processes and returned by the fallback rename
C36_Witness ==
    \E j \in Jobs :
        /\ job[j].late = {"rec", "tag"}
        /\ job[j].recRes = "ok"
        /\ job[j].tagRes = "start"
        /\ job[j].fetches = 1 /\ job[j].spawns = 2
        /\ job[j].pc = "done" /\ job[j].result = Ok(job[j].finalPath)

(***************************************************************************)
(* C37, C34: the all-programs view.                                        *)
(***************************************************************************)
\* a step of handleRecord taken while radikoClient is null
RecordWithoutClient ==
    /\ panel.radikoClient = Null
    /\ panel'.toast = "client not initialized"
    /\ panel'.toast # panel.toast

\* C37: in the all-programs view recordProgram is only called on a client
\* whose authenticate() succeeded: radikoClient, once set, is a client that
\* authenticated, every client recorded on authenticated, and a handleRecord
\* step taken while radikoClient is null shows the error toast and starts
\* no recording.
C37_RecordOnlyOnAuthenticatedClient ==
    /\ [](/\ panel.radikoClient # Null => panel.runs[panel.radikoClient].authed
          /\ \A client \in panel.recorded : panel.runs[client].authed)
    /\ [][RecordWithoutClient =>
            /\ panel'.recorded = panel.recorded
            /\ panel'.recording = panel.recording]_vars

\* the first run failed to authenticate, handleRecord was refused for want
\* of a client, and after a later run authenticated recordProgram was
\* called on that run's client, and on no other
C37_Witness ==
    /\ panel.runs["r1"].pc = "done"
    /\ ~panel.runs["r1"].authed
    /\ panel.toast = "recording started"
    /\ panel.recorded = {"r2"}
    /\ panel.radikoClient = "r2"

\* the run the effect started for the current selection is still awaiting
LatestInFlight ==
    /\ panel.latest # Null
    /\ panel.runs[panel.latest].pc \in {"auth", "stations", "programs"}

\* every run is over and the one for the current selection set its map
LoadingFinished ==
    /\ panel.latest # Null
    /\ panel.runs[panel.latest].pc = "shown"
    /\ \A r \in Runs : panel.runs[r].pc \in {"idle", "done", "shown"}
    /\ ~panel.isLoading

\* C34: once loading has finished the program lists displayed are those of
\* the date selected last, whatever the interleaving of date changes and
\* earlier runs, and isLoading is not false while the run for the current
\* selection is in flight.
C34_LatestSelectionDisplayed ==
    /\ LoadingFinished => DisplayedDates = {panel.date}
    /\ LatestInFlight => panel.isLoading
====
